---- MODULE Spec2Model ----
(***************************************************************************)
(* LiveMedBench evaluation pipeline.                                       *)
(*   src/evaluate/evaluate_model.py : grading run (judge client, parser,   *)
(*                                    run controller with resume)          *)
(*   src/evaluate/run_model.py      : generation run (resume, checkpoint)  *)
(*                                                                         *)
(* Python values are represented as follows.                               *)
(*   text       a sequence of one-character strings                        *)
(*   case_id    <<"int", n>>, <<"str", n>> (the string of the digits of n) *)
(*              or <<"none", 0>> (None / no case_id)                       *)
(*   dict       a sequence of entries in insertion order                   *)
(***************************************************************************)
EXTENDS Integers, Sequences, FiniteSets, TLC

(***************************************************************************)
(* Text helpers: str.lower, str.strip, the `in` substring test.            *)
(***************************************************************************)
UpperChars == <<"A","B","C","D","E","F","G","H","I","J","K","L","M",
                "N","O","P","Q","R","S","T","U","V","W","X","Y","Z">>

LowerChars == <<"a","b","c","d","e","f","g","h","i","j","k","l","m",
                "n","o","p","q","r","s","t","u","v","w","x","y","z">>

LowerChar(c) ==
    IF \E k \in 1..Len(UpperChars) : UpperChars[k] = c
    THEN LowerChars[CHOOSE k \in 1..Len(UpperChars) : UpperChars[k] = c]
    ELSE c

Lower(s) == [k \in 1..Len(s) |-> LowerChar(s[k])]

IsSpace(c) == c \in {" ", "\t", "\n", "\r"}

RECURSIVE LStrip(_)
LStrip(s) == IF s # <<>> /\ IsSpace(Head(s)) THEN LStrip(Tail(s)) ELSE s

RECURSIVE RStrip(_)
RStrip(s) ==
    IF s # <<>> /\ IsSpace(s[Len(s)]) THEN RStrip(SubSeq(s, 1, Len(s) - 1)) ELSE s

Strip(s) == RStrip(LStrip(s))

Contains(hay, needle) ==
    \E k \in 1..(Len(hay) - Len(needle) + 1) :
        SubSeq(hay, k, k + Len(needle) - 1) = needle

(***************************************************************************)
(* json.loads on texts over letters, blanks and the JSON punctuation       *)
(* [ ] { } " : ,  (no digits, signs, backslashes or control characters,    *)
(* so numbers and string escapes do not arise).  A parse result is         *)
(* [ok, val, pos]: pos is the index after the value.  JSON values:         *)
(*   [t |-> "bool", b], [t |-> "str", s], [t |-> "null"],                  *)
(*   [t |-> "list", items], [t |-> "obj", pairs] (pairs of <<key, value>>) *)
(***************************************************************************)
JFail == [ok |-> FALSE, val |-> [t |-> "null"], pos |-> 0]

JOk(v, p) == [ok |-> TRUE, val |-> v, pos |-> p]

RECURSIVE SkipWs(_, _)
SkipWs(s, i) == IF i <= Len(s) /\ IsSpace(s[i]) THEN SkipWs(s, i + 1) ELSE i

StartsAt(s, i, w) == i + Len(w) - 1 <= Len(s) /\ SubSeq(s, i, i + Len(w) - 1) = w

\* The closing quote of the string whose opening quote is before position i
\* (0 when the string is not terminated).
RECURSIVE ClosingQuote(_, _)
ClosingQuote(s, i) ==
    IF i > Len(s) THEN 0
    ELSE IF s[i] = "\"" THEN i
    ELSE ClosingQuote(s, i + 1)

ParseString(s, i) ==
    IF i <= Len(s) /\ s[i] = "\"" /\ ClosingQuote(s, i + 1) # 0
    THEN JOk([t |-> "str", s |-> SubSeq(s, i + 1, ClosingQuote(s, i + 1) - 1)],
             ClosingQuote(s, i + 1) + 1)
    ELSE JFail

RECURSIVE ParseValue(_, _)
RECURSIVE ParseItems(_, _, _)
RECURSIVE ParsePairs(_, _, _)

\* Array elements: position i is at the start of the next element.
ParseItems(s, i, acc) ==
    LET r == ParseValue(s, i) IN
    IF ~r.ok THEN JFail
    ELSE LET j == SkipWs(s, r.pos)
             items == Append(acc, r.val) IN
         IF j > Len(s) THEN JFail
         ELSE IF s[j] = "]" THEN JOk([t |-> "list", items |-> items], j + 1)
         ELSE IF s[j] = "," THEN ParseItems(s, SkipWs(s, j + 1), items)
         ELSE JFail

\* Object members: position i is at the opening quote of the next key.
ParsePairs(s, i, acc) ==
    LET k == ParseString(s, i) IN
    IF ~k.ok THEN JFail
    ELSE LET c == SkipWs(s, k.pos) IN
         IF c > Len(s) \/ s[c] # ":" THEN JFail
         ELSE LET r == ParseValue(s, SkipWs(s, c + 1)) IN
              IF ~r.ok THEN JFail
              ELSE LET j == SkipWs(s, r.pos)
                       pairs == Append(acc, <<k.val.s, r.val>>) IN
                   IF j > Len(s) THEN JFail
                   ELSE IF s[j] = "}" THEN JOk([t |-> "obj", pairs |-> pairs], j + 1)
                   ELSE IF s[j] = "," THEN ParsePairs(s, SkipWs(s, j + 1), pairs)
                   ELSE JFail

ParseValue(s, i) ==
    IF i > Len(s) THEN JFail
    ELSE IF s[i] = "\"" THEN ParseString(s, i)
    ELSE IF s[i] = "[" THEN
        LET j == SkipWs(s, i + 1) IN
        IF j <= Len(s) /\ s[j] = "]" THEN JOk([t |-> "list", items |-> <<>>], j + 1)
        ELSE ParseItems(s, j, <<>>)
    ELSE IF s[i] = "{" THEN
        LET j == SkipWs(s, i + 1) IN
        IF j <= Len(s) /\ s[j] = "}" THEN JOk([t |-> "obj", pairs |-> <<>>], j + 1)
        ELSE ParsePairs(s, j, <<>>)
    ELSE IF StartsAt(s, i, <<"t","r","u","e">>) THEN JOk([t |-> "bool", b |-> TRUE], i + 4)
    ELSE IF StartsAt(s, i, <<"f","a","l","s","e">>) THEN JOk([t |-> "bool", b |-> FALSE], i + 5)
    ELSE IF StartsAt(s, i, <<"n","u","l","l">>) THEN JOk([t |-> "null"], i + 4)
    ELSE JFail

\* json.loads(text): one value, blanks around it, nothing after it.
JsonLoads(s) ==
    LET r == ParseValue(s, SkipWs(s, 1)) IN
    IF r.ok /\ SkipWs(s, r.pos) > Len(s) THEN r ELSE JFail

\* dict lookup: a repeated key keeps its last value.
HasKey(pairs, key) == \E k \in 1..Len(pairs) : pairs[k][1] = key

GetKey(pairs, key) ==
    pairs[CHOOSE k \in 1..Len(pairs) :
            /\ pairs[k][1] = key
            /\ \A m \in (k + 1)..Len(pairs) : pairs[m][1] # key][2]

(***************************************************************************)
(* Judgment parser: call_gpt_evaluator, from the reply text to "1" / "0".  *)
(***************************************************************************)
Some(v) == [found |-> TRUE, v |-> v]

None == [found |-> FALSE, v |-> "0"]

\* Variant of StructuralVerdict: the JSON of the reply is never looked at.
StructuralVerdictSkipped(text) == None

\* Rule 1: the reply is a JSON list whose first element is an object with a
\* boolean or "true"/"false" string field met.  A json.loads error and every
\* other shape fall through to the next rules.
StructuralVerdict(text) ==
    LET r == JsonLoads(text) IN
    IF ~r.ok THEN None
    ELSE IF r.val.t # "list" THEN None
    ELSE IF r.val.items = <<>> THEN None
    ELSE LET first == r.val.items[1] IN
         IF first.t # "obj" THEN None
         ELSE IF ~HasKey(first.pairs, <<"m","e","t">>) THEN None
         ELSE LET met == GetKey(first.pairs, <<"m","e","t">>) IN
              IF met.t = "bool" THEN Some(IF met.b THEN "1" ELSE "0")
              ELSE IF met.t = "str" THEN
                  LET lowered == Lower(Strip(met.s)) IN
                  IF lowered = <<"t","r","u","e">> THEN Some("1")
                  ELSE IF lowered = <<"f","a","l","s","e">> THEN Some("0")
                  ELSE None
              ELSE None

\* Rule 2: the lowercased text holds "met" in quotes, and true or false.
LexicalVerdict(lowered_text) ==
    IF Contains(lowered_text, <<"\"","m","e","t","\"">>)
    THEN IF Contains(lowered_text, <<"t","r","u","e">>) THEN Some("1")
         ELSE IF Contains(lowered_text, <<"f","a","l","s","e">>) THEN Some("0")
         ELSE None
    ELSE None

\* Rule 3: yes / satisf, then no / not satisf.
KeywordVerdict(lowered_text) ==
    IF \/ Contains(lowered_text, <<"y","e","s">>)
       \/ Contains(lowered_text, <<"s","a","t","i","s","f">>)
    THEN Some("1")
    ELSE IF \/ Contains(lowered_text, <<"n","o">>)
            \/ Contains(lowered_text, <<"n","o","t"," ","s","a","t","i","s","f">>)
    THEN Some("0")
    ELSE None

\* Variant of ParseJudgment: the default when no rule matches is "1".
ParseJudgmentDefaultOne(content) ==
    LET text == Strip(content)
        lowered_text == Lower(text) IN
    IF StructuralVerdict(text).found THEN StructuralVerdict(text).v
    ELSE IF LexicalVerdict(lowered_text).found THEN LexicalVerdict(lowered_text).v
    ELSE IF KeywordVerdict(lowered_text).found THEN KeywordVerdict(lowered_text).v
    ELSE "1"

\* The value call_gpt_evaluator returns for the message content of a reply.
ParseJudgment(content) ==
    LET text == Strip(content)
        lowered_text == Lower(text) IN
    IF StructuralVerdict(text).found THEN StructuralVerdict(text).v
    ELSE IF LexicalVerdict(lowered_text).found THEN LexicalVerdict(lowered_text).v
    ELSE IF KeywordVerdict(lowered_text).found THEN KeywordVerdict(lowered_text).v
    ELSE "0"

\* int(result) in evaluate_rubric_item.
ToInt(result) == IF result = "1" THEN 1 ELSE 0

(***************************************************************************)
(* Python values of the run controllers.                                   *)
(***************************************************************************)
NoneId == <<"none", 0>>

\* str(case_id)
PyStr(case_id) == <<"str", case_id[2]>>

\* dict as a sequence of <<key, value>> in insertion order.
InDict(d, key) == \E k \in 1..Len(d) : d[k][1] = key

DictGet(d, key) == d[CHOOSE k \in 1..Len(d) : d[k][1] = key][2]

\* d[key] = value: a new key goes last, a known key keeps its place.
DictPut(d, key, value) ==
    IF InDict(d, key)
    THEN [k \in 1..Len(d) |-> IF d[k][1] = key THEN <<key, value>> ELSE d[k]]
    ELSE Append(d, <<key, value>>)

\* list(d.values())
Values(d) == [k \in 1..Len(d) |-> d[k][2]]

MAX_RETRIES == 3

BACKOFF_UNIT == 2

CHECKPOINT_EVERY == 5

(***************************************************************************)
(* Inputs of a grading run: the rubric file, the model-response index, the *)
(* output file left by an earlier run, and the command line.               *)
(***************************************************************************)
NumCases == 6

\* The case at position i of the rubric file; case_ids are numbers at odd
\* positions and strings at even ones.
CaseIdOf(i) == IF i % 2 = 1 THEN <<"int", i>> ELSE <<"str", i>>

CritA == <<"a">>

CritB == <<"b">>

RespText == <<"o","k">>

RespBlank == <<" ", " ">>

SpecialKinds ==
    {"norubric", "lostrubric", "nomodel", "emptyresp", "fallback", "blank",
     "noid", "emptycrit", "twoitems", "gone"}

RubricItemsOf(kind) ==
    CASE kind \in {"norubric", "lostrubric"} -> <<>>
      [] kind = "emptycrit" -> << [criterion |-> <<>>, points |-> 3],
                                  [criterion |-> CritB, points |-> 0 - 5] >>
      [] kind = "twoitems"  -> << [criterion |-> CritA, points |-> 10],
                                  [criterion |-> CritB, points |-> 0 - 5] >>
      [] OTHER              -> << [criterion |-> CritA, points |-> 10] >>

RubricCase(i, kind) ==
    [case_id |-> IF kind = "noid" THEN NoneId ELSE CaseIdOf(i),
     rubric_items |-> RubricItemsOf(kind)]

\* The entry of the model-response index for a case (none for "nomodel").
ModelCaseOf(kind) ==
    CASE kind = "emptyresp" -> [model_response |-> <<>>, response |-> <<>>]
      [] kind = "fallback"  -> [model_response |-> <<>>, response |-> RespText]
      [] kind = "blank"     -> [model_response |-> RespBlank, response |-> <<>>]
      [] OTHER              -> [model_response |-> RespText, response |-> <<>>]

\* The rubric file: the cases in order; a case of kind "gone" was in the
\* rubric file of an earlier run and is in the present one no more.
RECURSIVE RubricFile(_, _)
RubricFile(kinds, n) ==
    IF n = 0 THEN <<>>
    ELSE IF kinds[n] = "gone" THEN RubricFile(kinds, n - 1)
    ELSE Append(RubricFile(kinds, n - 1), RubricCase(n, kinds[n]))

\* Rubric files: NumCases cases, at most one of which is of a special kind.
KindAssignments ==
    {[i \in 1..NumCases |-> "ok"]} \cup
    {[i \in 1..NumCases |-> IF i = p THEN k ELSE "ok"] :
        p \in 1..NumCases, k \in SpecialKinds}

\* An item of the model-response file: the fields of ModelCaseOf and case_id.
ModelItem(i, kind) ==
    [case_id |-> CaseIdOf(i),
     model_response |-> ModelCaseOf(kind).model_response,
     response |-> ModelCaseOf(kind).response]

\* The list in the model-response file: one item per case of the rubric file
\* that has a model response.
RECURSIVE ModelFile(_, _)
ModelFile(kinds, n) ==
    IF n = 0 THEN <<>>
    ELSE IF kinds[n] \in {"nomodel", "noid"} THEN ModelFile(kinds, n - 1)
    ELSE Append(ModelFile(kinds, n - 1), ModelItem(n, kinds[n]))

\* Start-up configurations ("str" is a JSON root of a type the stages do not
\* accept): everything in order, OPENAI_API_KEY not set, the
\* rubric (or data) file not a list, the model-response file not a list.
Configs ==
    { [api_key |-> TRUE,  input_root |-> "list", model_root |-> "list"],
      [api_key |-> FALSE, input_root |-> "list", model_root |-> "list"],
      [api_key |-> TRUE,  input_root |-> "str",  model_root |-> "list"],
      [api_key |-> TRUE,  input_root |-> "list", model_root |-> "str"] }

ConfigInOrder == [api_key |-> TRUE, input_root |-> "list", model_root |-> "list"]

\* Variant of Entry: weighted_score is the points, whatever the score.
EntryPointsOnly(item, score) ==
    [criterion |-> item.criterion, points |-> item.points,
     score |-> score, weighted_score |-> item.points]

\* The entry stored for a rubric item (lines 427-433).
Entry(item, score) ==
    [criterion |-> item.criterion, points |-> item.points,
     score |-> score, weighted_score |-> item.points * score]

\* Variant of EmptyRecord: the record has an entry scored 0.
ZeroScoredRecord(case_id) ==
    [case_id |-> case_id,
     evaluations |-> << <<1, Entry([criterion |-> CritA, points |-> 10], 0)>> >>]

\* {"case_id": case_id, "evaluations": {}}
EmptyRecord(case_id) == [case_id |-> case_id, evaluations |-> <<>>]

\* The record an earlier run stored for a case: every non-empty criterion
\* judged as met.
RECURSIVE StoredEvaluations(_, _)
StoredEvaluations(items, n) ==
    IF n = 0 THEN <<>>
    ELSE IF items[n].criterion = <<>> THEN StoredEvaluations(items, n - 1)
    ELSE Append(StoredEvaluations(items, n - 1), <<n, Entry(items[n], 1)>>)

\* The rubric items an earlier run graded a case with: those of the rubric
\* file, except for a case of kind "lostrubric", which had one criterion then
\* and has none now.
ItemsWhenStored(c, kind) ==
    IF kind = "lostrubric" THEN RubricItemsOf("ok") ELSE c.rubric_items

\* The output file an earlier run left after the first n cases.
RECURSIVE PriorFile(_, _, _)
PriorFile(cases, kinds, n) ==
    IF n = 0 THEN <<>>
    ELSE IF cases[n].case_id = NoneId THEN PriorFile(cases, kinds, n - 1)
    ELSE Append(PriorFile(cases, kinds, n - 1),
                [case_id |-> cases[n].case_id,
                 evaluations |->
                    StoredEvaluations(ItemsWhenStored(cases[n], kinds[n]),
                                      Len(ItemsWhenStored(cases[n], kinds[n])))])

\* Number of leading cases an earlier run left in the output file (0: no file).
PriorLens == {0, 1, 2}

NoLimit == [set |-> FALSE, n |-> 0]

Limit(n) == [set |-> TRUE, n |-> n]

MaxCasesArgs == {NoLimit, Limit(0), Limit(2)}

\* Replies of the judge used in grading runs.
ReplyMetTrue ==
    <<"[","{","\"","m","e","t","\"",":","t","r","u","e","}","]">>

ReplyMetFalse ==
    <<"[","{","\"","m","e","t","\"",":","f","a","l","s","e","}","]">>

JudgeReplies == {ReplyMetTrue, ReplyMetFalse}

VARIABLES
    rubric_data,           \* the rubric file
    api_key,               \* OPENAI_API_KEY is set
    input_root,            \* JSON root type of the rubric file / data file
    model_root,            \* JSON root type of the model-response file
    model_file,            \* the list in the model-response file
    model_results,         \* the model-response index (load_model_results)
    response_field,        \* --response-field
    resume,                \* --resume
    max_cases,             \* --max-cases
    file_exists,           \* the output file exists
    output_file,           \* its content, a list of records
    prior_file,            \* the content the run found when it started
    writes,                \* number of times this run wrote the output file
    existing_evaluations,  \* dict str(case_id) -> record
    results,               \* records produced by this run
    outcome,               \* how each record of results came about: "norubric",
                           \* "reused", "nomodel", "noresponse" or "graded"
    processed_count,
    idx,                   \* 1-based position of the case handled next
    pc,
    rubric_idx,            \* 1-based position of the rubric item handled next
    model_response,
    model_evaluations,     \* dict rubric position -> entry
    attempt,               \* call_gpt_evaluator: 0-based attempt
    sleeps,                \* call_gpt_evaluator: the waits of this call
    text,                  \* call_gpt_evaluator: stripped reply
    call_status,           \* "idle", "calling", "returned", "exhausted"
    judge_log,             \* str(case_id) of every judge request sent
    data,                  \* generation: the input data file
    processed_case_ids,    \* generation: set of case_ids already in results
    finish_reason,         \* generation: completion status of the last call
    gen_called,            \* case_ids the generation function was called for
    gen_returned,          \* case_ids whose call_chat_model has returned
    model_files,           \* aggregator: dict model name -> evaluation file
    rubric_mapping,        \* aggregator: dict str(case_id) -> rubric info
    all_model_scores,      \* aggregator: dict model name -> case_scores
    monthly_avg,           \* aggregator: dict month -> dict model name -> mean
    monthly_case_counts,   \* aggregator: dict month -> number of cases
    overall_avgs,          \* aggregator: dict model name -> mean
    tsv                    \* aggregator: the metrics table written

vars ==
    <<api_key, input_root, model_root, model_file,
      rubric_data, model_results, response_field, resume, max_cases,
      file_exists, output_file, prior_file, writes, existing_evaluations,
      results, outcome,
      processed_count, idx, pc, rubric_idx, model_response,
      model_evaluations, attempt, sleeps, text, call_status, judge_log,
      data, processed_case_ids, finish_reason, gen_called, gen_returned,
      model_files, rubric_mapping, all_model_scores, monthly_avg,
      monthly_case_counts, overall_avgs, tsv>>

inputs ==
    <<api_key, input_root, model_root, model_file,
      rubric_data, response_field, resume, max_cases, prior_file>>

disk == <<file_exists, output_file, writes>>

client == <<attempt, sleeps, text, call_status>>

generation == <<data, processed_case_ids, finish_reason, gen_called, gen_returned>>

aggregator ==
    <<model_files, rubric_mapping, all_model_scores, monthly_avg,
      monthly_case_counts, overall_avgs, tsv>>

\* The metrics table before it is written.
NoTable == [written |-> FALSE, header |-> <<>>, lines |-> <<>>]

\* The aggregator's variables, at rest during a grading or generation run.
AggregatorIdle ==
    /\ model_files = <<>>
    /\ rubric_mapping = <<>>
    /\ all_model_scores = <<>>
    /\ monthly_avg = <<>>
    /\ monthly_case_counts = <<>>
    /\ overall_avgs = <<>>
    /\ tsv = NoTable

\* The generation run's variables, at rest during a grading run.
GenerationIdle ==
    /\ data = <<>>
    /\ processed_case_ids = {}
    /\ finish_reason = ""
    /\ gen_called = {}
    /\ gen_returned = {}

\* Rubric files are combined with every start-up configuration; the special
\* kinds of case only with the configuration that is in order.
Init ==
    /\ \E kinds \in KindAssignments, k \in PriorLens, cfg \in Configs :
        /\ cfg # ConfigInOrder => kinds = [i \in 1..NumCases |-> "ok"]
        /\ api_key = cfg.api_key
        /\ input_root = cfg.input_root
        /\ model_root = cfg.model_root
        /\ rubric_data =
             IF cfg.input_root = "list" THEN RubricFile(kinds, NumCases) ELSE <<>>
        /\ model_file =
             IF cfg.model_root = "list" THEN ModelFile(kinds, NumCases) ELSE <<>>
        /\ file_exists = (k > 0)
        /\ output_file =
             PriorFile([i \in 1..NumCases |-> RubricCase(i, kinds[i])], kinds, k)
        /\ prior_file = output_file
    /\ model_results = <<>>
    /\ response_field = "model_response"
    /\ resume \in BOOLEAN
    /\ max_cases \in MaxCasesArgs
    /\ existing_evaluations = <<>>
    /\ results = <<>>
    /\ outcome = <<>>
    /\ processed_count = 0
    /\ idx = 1
    /\ pc = "main"
    /\ rubric_idx = 1
    /\ model_response = <<>>
    /\ model_evaluations = <<>>
    /\ attempt = 0
    /\ sleeps = <<>>
    /\ text = <<>>
    /\ call_status = "idle"
    /\ judge_log = {}
    /\ writes = 0
    /\ GenerationIdle
    /\ AggregatorIdle

\* The locals of process_evaluations and of the judge client, untouched
\* while the run starts up.
run_state ==
    <<existing_evaluations, results, outcome, processed_count, idx,
      rubric_idx, model_response, model_evaluations, client, judge_log>>

(***************************************************************************)
(* main and the loading of the inputs                                      *)
(***************************************************************************)
\* main: init_client raises RuntimeError when OPENAI_API_KEY is not set.
InitClient ==
    /\ pc = "main"
    /\ pc' = IF api_key THEN "load" ELSE "raised"
    /\ UNCHANGED <<aggregator, generation, inputs, model_results, disk,
                   run_state>>

\* for item in data: model_dict[str(case_id)] = item, items without a
\* case_id left out.
RECURSIVE IndexModelItems(_, _)
IndexModelItems(list, n) ==
    IF n = 0 THEN <<>>
    ELSE IF list[n].case_id = NoneId THEN IndexModelItems(list, n - 1)
    ELSE DictPut(IndexModelItems(list, n - 1), PyStr(list[n].case_id), list[n])

\* load_model_results for an existing file: the index of a list; for a root
\* of another type the TypeError of line 182 is raised inside the try block
\* and caught at line 188, and the function returns {}.
LoadModelResults(root, file) ==
    IF root = "list" THEN IndexModelItems(file, Len(file)) ELSE <<>>

\* process_evaluations, lines 322-329: the rubric file must be a list, else
\* TypeError; then the model results are loaded.
LoadInputs ==
    /\ pc = "load"
    /\ IF input_root = "list"
       THEN /\ model_results' = LoadModelResults(model_root, model_file)
            /\ pc' = "start"
       ELSE /\ pc' = "raised"
            /\ UNCHANGED model_results
    /\ UNCHANGED <<aggregator, generation, inputs, disk, run_state>>

(***************************************************************************)
(* process_evaluations                                                     *)
(***************************************************************************)
\* Variant of IndexByCaseId: keyed by the raw case_id, without str().
RECURSIVE IndexByRawCaseId(_, _)
IndexByRawCaseId(list, n) ==
    IF n = 0 THEN <<>>
    ELSE IF list[n].case_id = NoneId THEN IndexByRawCaseId(list, n - 1)
    ELSE DictPut(IndexByRawCaseId(list, n - 1), list[n].case_id, list[n])

\* The dict comprehension over the prior output file (lines 336-340).
RECURSIVE IndexByCaseId(_, _)
IndexByCaseId(list, n) ==
    IF n = 0 THEN <<>>
    ELSE IF list[n].case_id = NoneId THEN IndexByCaseId(list, n - 1)
    ELSE DictPut(IndexByCaseId(list, n - 1), PyStr(list[n].case_id), list[n])

LoadExisting ==
    /\ pc = "start"
    /\ existing_evaluations' =
         IF resume /\ file_exists
         THEN IndexByCaseId(output_file, Len(output_file))
         ELSE <<>>
    /\ results' = <<>>
    /\ outcome' = <<>>
    /\ processed_count' = 0
    /\ idx' = 1
    /\ pc' = "loop"
    /\ UNCHANGED <<aggregator, generation, inputs, model_results, disk,
                   rubric_idx, model_response, model_evaluations,
                   client, judge_log>>

\* Variant of Persisted: only the records of this run are written.
PersistedNewOnly(new_results) == new_results

\* json.dump(list(existing_evaluations.values()) + results) into the output file.
Persisted(new_results) == Values(existing_evaluations) \o new_results

MaxCasesReached == max_cases.set /\ processed_count >= max_cases.n

\* The loop is at a case it will look at.
AtCase == pc = "loop" /\ idx <= Len(rubric_data) /\ ~MaxCasesReached

case == rubric_data[idx]

case_id_str == PyStr(case.case_id)

\* results.append(record); continue
AppendAndContinue(record, kind) ==
    /\ results' = Append(results, record)
    /\ outcome' = Append(outcome, kind)
    /\ idx' = idx + 1
    /\ pc' = "loop"

MaxCasesBreak ==
    /\ pc = "loop"
    /\ idx <= Len(rubric_data)
    /\ MaxCasesReached
    /\ pc' = "final"
    /\ UNCHANGED <<aggregator, generation, inputs, model_results, disk,
                   existing_evaluations, results, outcome,
                   processed_count, idx, rubric_idx, model_response,
                   model_evaluations, client, judge_log>>

LoopEnd ==
    /\ pc = "loop"
    /\ idx > Len(rubric_data)
    /\ pc' = "final"
    /\ UNCHANGED <<aggregator, generation, inputs, model_results, disk,
                   existing_evaluations, results, outcome,
                   processed_count, idx, rubric_idx, model_response,
                   model_evaluations, client, judge_log>>

SkipNoCaseId ==
    /\ AtCase
    /\ case.case_id = NoneId
    /\ idx' = idx + 1
    /\ UNCHANGED <<aggregator, generation, inputs, model_results, disk,
                   existing_evaluations, results, outcome,
                   processed_count, pc, rubric_idx, model_response,
                   model_evaluations, client, judge_log>>

SkipNoRubric ==
    /\ AtCase
    /\ case.case_id # NoneId
    /\ case.rubric_items = <<>>
    /\ IF ~InDict(existing_evaluations, case_id_str)
       THEN AppendAndContinue(EmptyRecord(case.case_id), "norubric")
       ELSE /\ idx' = idx + 1
            /\ UNCHANGED <<results, outcome, pc>>
    /\ UNCHANGED <<aggregator, generation, inputs, model_results, disk,
                   existing_evaluations, processed_count,
                   rubric_idx, model_response, model_evaluations, client,
                   judge_log>>

SkipAlreadyEvaluated ==
    /\ AtCase
    /\ case.case_id # NoneId
    /\ case.rubric_items # <<>>
    /\ InDict(existing_evaluations, case_id_str)
    /\ AppendAndContinue(DictGet(existing_evaluations, case_id_str), "reused")
    /\ UNCHANGED <<aggregator, generation, inputs, model_results, disk,
                   existing_evaluations, processed_count,
                   rubric_idx, model_response, model_evaluations, client,
                   judge_log>>

\* The case is neither skipped for its rubric nor reused: it is newly processed.
IsNewCase ==
    /\ AtCase
    /\ case.case_id # NoneId
    /\ case.rubric_items # <<>>
    /\ ~InDict(existing_evaluations, case_id_str)

\* The response text of a model-response entry (lines 389-394).
LookupResponse(model_case) ==
    LET first == IF response_field = "response" THEN model_case.response
                 ELSE model_case.model_response IN
    IF first = <<>> /\ response_field # "response"
    THEN model_case.response
    ELSE first

SkipModelMissing ==
    /\ IsNewCase
    /\ ~InDict(model_results, case_id_str)
    /\ processed_count' = processed_count + 1
    /\ AppendAndContinue(EmptyRecord(case.case_id), "nomodel")
    /\ UNCHANGED <<aggregator, generation, inputs, model_results, disk,
                   existing_evaluations, rubric_idx,
                   model_response, model_evaluations, client, judge_log>>

SkipEmptyResponse ==
    /\ IsNewCase
    /\ InDict(model_results, case_id_str)
    /\ LookupResponse(DictGet(model_results, case_id_str)) = <<>>
    /\ processed_count' = processed_count + 1
    /\ AppendAndContinue(EmptyRecord(case.case_id), "noresponse")
    /\ UNCHANGED <<aggregator, generation, inputs, model_results, disk,
                   existing_evaluations, rubric_idx,
                   model_response, model_evaluations, client, judge_log>>

BeginGrading ==
    /\ IsNewCase
    /\ InDict(model_results, case_id_str)
    /\ LookupResponse(DictGet(model_results, case_id_str)) # <<>>
    /\ processed_count' = processed_count + 1
    /\ model_response' = LookupResponse(DictGet(model_results, case_id_str))
    /\ model_evaluations' = <<>>
    /\ rubric_idx' = 1
    /\ pc' = "item"
    /\ UNCHANGED <<aggregator, generation, inputs, model_results, disk,
                   existing_evaluations, results, outcome, idx,
                   client, judge_log>>

(***************************************************************************)
(* The rubric loop of a case, evaluate_rubric_item and call_gpt_evaluator  *)
(***************************************************************************)
rubric_item == case.rubric_items[rubric_idx]

AtItem == pc = "item" /\ rubric_idx <= Len(case.rubric_items)

\* call_gpt_evaluator's locals do not outlive the call.
ClientIdle ==
    /\ attempt' = 0
    /\ sleeps' = <<>>
    /\ text' = <<>>
    /\ call_status' = "idle"

\* model_evaluations[f"rubric_{rubric_idx}"] = {...}; on to the next item.
RecordScore(score) ==
    /\ model_evaluations' =
         DictPut(model_evaluations, rubric_idx, Entry(rubric_item, score))
    /\ rubric_idx' = rubric_idx + 1
    /\ pc' = "item"

SkipEmptyCriterion ==
    /\ AtItem
    /\ rubric_item.criterion = <<>>
    /\ rubric_idx' = rubric_idx + 1
    /\ ClientIdle
    /\ UNCHANGED <<aggregator, generation, inputs, model_results, disk,
                   existing_evaluations, results, outcome,
                   processed_count, idx, pc, model_response,
                   model_evaluations, judge_log>>

\* evaluate_rubric_item on a whitespace-only response: 0, no judge request.
ScoreBlankResponse ==
    /\ AtItem
    /\ rubric_item.criterion # <<>>
    /\ Strip(model_response) = <<>>
    /\ RecordScore(0)
    /\ ClientIdle
    /\ UNCHANGED <<aggregator, generation, inputs, model_results, disk,
                   existing_evaluations, results, outcome,
                   processed_count, idx, model_response, judge_log>>

StartJudgeCall ==
    /\ AtItem
    /\ rubric_item.criterion # <<>>
    /\ Strip(model_response) # <<>>
    /\ pc' = "call"
    /\ attempt' = 0
    /\ sleeps' = <<>>
    /\ text' = <<>>
    /\ call_status' = "calling"
    /\ UNCHANGED <<aggregator, generation, inputs, model_results, disk,
                   existing_evaluations, results, outcome,
                   processed_count, idx, rubric_idx, model_response,
                   model_evaluations, judge_log>>

\* The judge answers the request of this attempt with message content `content`.
JudgeReturns(content) ==
    /\ pc = "call"
    /\ judge_log' = judge_log \cup {case_id_str}
    /\ text' = Strip(content)
    /\ call_status' = "returned"
    /\ RecordScore(ToInt(ParseJudgment(content)))
    /\ UNCHANGED <<aggregator, generation, inputs, model_results, disk,
                   existing_evaluations, results, outcome,
                   processed_count, idx, model_response, attempt, sleeps>>

\* Variant of WaitTime: the 0-based attempt taken as the multiplier.
WaitTimeZeroBased(failed_attempt) == failed_attempt * BACKOFF_UNIT

\* wait_time = (attempt + 1) * 2
WaitTime(failed_attempt) == (failed_attempt + 1) * BACKOFF_UNIT

\* The request raises and attempts remain: time.sleep(wait_time).
JudgeRaisesRetry ==
    /\ pc = "call"
    /\ attempt < MAX_RETRIES - 1
    /\ judge_log' = judge_log \cup {case_id_str}
    /\ sleeps' = Append(sleeps, WaitTime(attempt))
    /\ attempt' = attempt + 1
    /\ UNCHANGED <<aggregator, generation, inputs, model_results, disk,
                   existing_evaluations, results, outcome,
                   processed_count, idx, pc, rubric_idx, model_response,
                   model_evaluations, text, call_status>>

\* The request raises on the last attempt: return "0".
JudgeRaisesLast ==
    /\ pc = "call"
    /\ ~(attempt < MAX_RETRIES - 1)
    /\ judge_log' = judge_log \cup {case_id_str}
    /\ call_status' = "exhausted"
    /\ RecordScore(ToInt("0"))
    /\ UNCHANGED <<aggregator, generation, inputs, model_results, disk,
                   existing_evaluations, results, outcome,
                   processed_count, idx, model_response, attempt, sleeps, text>>

\* Variant of CheckpointDue: due one case after each multiple.
CheckpointDueLate(count) == count % CHECKPOINT_EVERY = 1

\* processed_count % 5 == 0
CheckpointDue(count) == count % CHECKPOINT_EVERY = 0

\* The rubric loop is over: append the record, checkpoint every fifth
\* newly processed case (lines 440-450).
FinishCase ==
    /\ pc = "item"
    /\ rubric_idx > Len(case.rubric_items)
    /\ LET result == [case_id |-> case.case_id, evaluations |-> model_evaluations] IN
        /\ AppendAndContinue(result, "graded")
        /\ IF CheckpointDue(processed_count)
           THEN /\ output_file' = Persisted(Append(results, result))
                /\ file_exists' = TRUE
                /\ writes' = writes + 1
           ELSE UNCHANGED disk
    /\ ClientIdle
    /\ UNCHANGED <<aggregator, generation, inputs, model_results,
                   existing_evaluations, processed_count, rubric_idx,
                   model_response, model_evaluations, judge_log>>

\* Variant of FinalSave: the run ends without writing the output file.
FinalSaveSkipped ==
    /\ pc = "final"
    /\ pc' = "done"
    /\ UNCHANGED <<aggregator, generation, inputs, model_results, disk,
                   existing_evaluations, results, outcome,
                   processed_count, idx, rubric_idx, model_response,
                   model_evaluations, client, judge_log>>

\* Saving final results (lines 452-455).
FinalSave ==
    /\ pc = "final"
    /\ output_file' = Persisted(results)
    /\ file_exists' = TRUE
    /\ writes' = writes + 1
    /\ pc' = "done"
    /\ UNCHANGED <<aggregator, generation, inputs, model_results,
                   existing_evaluations, results, outcome,
                   processed_count, idx, rubric_idx, model_response,
                   model_evaluations, client, judge_log>>

Next ==
    \/ InitClient
    \/ LoadInputs
    \/ LoadExisting
    \/ MaxCasesBreak
    \/ LoopEnd
    \/ SkipNoCaseId
    \/ SkipNoRubric
    \/ SkipAlreadyEvaluated
    \/ SkipModelMissing
    \/ SkipEmptyResponse
    \/ BeginGrading
    \/ SkipEmptyCriterion
    \/ ScoreBlankResponse
    \/ StartJudgeCall
    \/ \E content \in JudgeReplies : JudgeReturns(content)
    \/ JudgeRaisesRetry
    \/ JudgeRaisesLast
    \/ FinishCase
    \/ FinalSave

Spec == Init /\ [][Next]_vars

(***************************************************************************)
(* run_model.py: the generation run.  A record keeps case_id,              *)
(* model_response and finish_reason; the fields copied from the case       *)
(* (post_time, narrative, core_request, doctor_advice) are left out.       *)
(***************************************************************************)
NumData == 4

\* A case of the data file without the key case_id.
NoKey == <<"nokey", 0>>

\* Data files: NumData cases, at most one of which has no case_id key.
DataFiles ==
    {[i \in 1..NumData |-> [case_id |-> CaseIdOf(i)]]} \cup
    {[i \in 1..NumData |-> [case_id |-> IF i = p THEN NoKey ELSE CaseIdOf(i)]] :
        p \in 1..NumData}

\* case.get("case_id", f"case_{idx}") with the 0-based idx of enumerate.
EffectiveId(c, i) == IF c.case_id = NoKey THEN <<"case", i - 1>> ELSE c.case_id

StoredText == <<"o","l","d">>

\* The output file an earlier generation run left after its first n cases.
GenPriorFile(cases, n) ==
    [i \in 1..n |-> [case_id |-> EffectiveId(cases[i], i),
                     model_response |-> StoredText,
                     finish_reason |-> "stop"]]

GenMaxCasesArgs == {NoLimit, Limit(0), Limit(1), Limit(2)}

\* What chat.completions.create gives back when it returns: the message
\* content and finish_reason of the first choice ("" stands for None).
GenReplies ==
    { [content |-> <<" ","o","k"," ">>, finish_reason |-> "stop"],
      [content |-> <<>>, finish_reason |-> ""] }

ErrorText == <<"E","R","R","O","R">>

\* Variant of ExhaustedReturn: the result of a call that returned nothing.
ExhaustedReturnUnknown == [text |-> <<>>, finish_reason |-> "unknown"]

\* call_chat_model when the last attempt raises: (None, "ERROR: ...", "error").
ExhaustedReturn == [text |-> ErrorText, finish_reason |-> "error"]

\* The output file of an earlier run in which the call for the case at
\* position e exhausted its retries (e = 0: no such case): that record is
\* the placeholder with the error text.
GenPriorFileFailed(cases, n, e) ==
    [i \in 1..n |->
        IF i = e
        THEN [case_id |-> EffectiveId(cases[i], i),
              model_response |-> ExhaustedReturn.text,
              finish_reason |-> ExhaustedReturn.finish_reason]
        ELSE GenPriorFile(cases, n)[i]]

grading ==
    <<existing_evaluations, outcome, rubric_idx, model_response,
      model_evaluations, judge_log>>

\* Start-up configurations of a generation run (it reads no model-response
\* file).
GenConfigs == {cfg \in Configs : cfg.model_root = "list"}

GenInit ==
    /\ \E d \in DataFiles, k \in 0..NumData, e \in {0, 1}, cfg \in GenConfigs :
        /\ e <= k
        /\ api_key = cfg.api_key
        /\ input_root = cfg.input_root
        /\ model_root = cfg.model_root
        /\ data = IF cfg.input_root = "list" THEN d ELSE <<>>
        /\ file_exists = (k > 0)
        /\ output_file = GenPriorFileFailed(d, k, e)
        /\ prior_file = output_file
    /\ resume \in BOOLEAN
    /\ max_cases \in GenMaxCasesArgs
    /\ rubric_data = <<>>
    /\ model_file = <<>>
    /\ model_results = <<>>
    /\ response_field = "model_response"
    /\ existing_evaluations = <<>>
    /\ results = <<>>
    /\ outcome = <<>>
    /\ processed_count = 0
    /\ idx = 1
    /\ pc = "gen_main"
    /\ rubric_idx = 1
    /\ model_response = <<>>
    /\ model_evaluations = <<>>
    /\ attempt = 0
    /\ sleeps = <<>>
    /\ text = <<>>
    /\ call_status = "idle"
    /\ judge_log = {}
    /\ writes = 0
    /\ processed_case_ids = {}
    /\ finish_reason = ""
    /\ gen_called = {}
    /\ gen_returned = {}
    /\ AggregatorIdle

\* Variant of LoadedCaseIds: the ids of the records that hold a response,
\* those of the error placeholders left out.
LoadedCaseIdsNoErrors(list) ==
    {list[k].case_id : k \in {j \in 1..Len(list) : list[j].finish_reason # "error"}}
        \ {NoneId}

\* Variant of LoadedCaseIds: the ids converted with str(), as the grading run does.
LoadedCaseIdsAsStr(list) ==
    {PyStr(list[k].case_id) : k \in 1..Len(list)} \ {PyStr(NoneId)}

\* {r.get("case_id") for r in results if r.get("case_id") is not None}
LoadedCaseIds(list) == {list[k].case_id : k \in 1..Len(list)} \ {NoneId}

\* The locals of process_cases and of call_chat_model, untouched while the
\* run starts up.
gen_state ==
    <<results, processed_count, idx, processed_case_ids, attempt, sleeps,
      text, call_status, finish_reason, gen_called, gen_returned>>

\* main, line 279: load_data raises ValueError unless the root is a list.
GenLoadData ==
    /\ pc = "gen_main"
    /\ pc' = IF input_root = "list" THEN "gen_client" ELSE "raised"
    /\ UNCHANGED <<aggregator, grading, inputs, model_results, disk, data,
                   gen_state>>

\* main, line 283: init_client raises RuntimeError when OPENAI_API_KEY is
\* not set.
GenInitClient ==
    /\ pc = "gen_client"
    /\ pc' = IF api_key THEN "gen_start" ELSE "raised"
    /\ UNCHANGED <<aggregator, grading, inputs, model_results, disk, data,
                   gen_state>>

\* process_cases, lines 188-208.
GenLoadExisting ==
    /\ pc = "gen_start"
    /\ IF resume /\ file_exists
       THEN /\ results' = output_file
            /\ processed_case_ids' = LoadedCaseIds(output_file)
       ELSE /\ results' = <<>>
            /\ processed_case_ids' = {}
    /\ processed_count' = 0
    /\ idx' = 1
    /\ pc' = "gen_loop"
    /\ UNCHANGED <<aggregator, grading, inputs, model_results, disk, data,
                   attempt, sleeps, text,
                   call_status, finish_reason, gen_called, gen_returned>>

gen_case_id == EffectiveId(data[idx], idx)

GenSkipProcessed ==
    /\ pc = "gen_loop"
    /\ idx <= Len(data)
    /\ gen_case_id \in processed_case_ids
    /\ idx' = idx + 1
    /\ UNCHANGED <<aggregator, grading, inputs, model_results, disk, data,
                   results, processed_count,
                   processed_case_ids, pc, attempt, sleeps, text,
                   call_status, finish_reason, gen_called, gen_returned>>

\* A case not yet processed: count it and enter call_chat_model.
GenBeginCase ==
    /\ pc = "gen_loop"
    /\ idx <= Len(data)
    /\ gen_case_id \notin processed_case_ids
    /\ processed_count' = processed_count + 1
    /\ attempt' = 0
    /\ sleeps' = <<>>
    /\ call_status' = "calling"
    /\ pc' = "gen_call"
    /\ UNCHANGED <<aggregator, grading, inputs, model_results, disk, data,
                   results, idx,
                   processed_case_ids, text, finish_reason, gen_called,
                   gen_returned>>

\* The request of this attempt returns (line 159-162).
GenReturns(reply) ==
    /\ pc = "gen_call"
    /\ gen_called' = gen_called \cup {gen_case_id}
    /\ gen_returned' = gen_returned \cup {gen_case_id}
    /\ text' = Strip(reply.content)
    /\ finish_reason' =
         IF reply.finish_reason = "" THEN "unknown" ELSE reply.finish_reason
    /\ call_status' = "returned"
    /\ pc' = "gen_record"
    /\ UNCHANGED <<aggregator, grading, inputs, model_results, disk, data,
                   results, processed_count, idx,
                   processed_case_ids, attempt, sleeps>>

GenRaisesRetry ==
    /\ pc = "gen_call"
    /\ attempt < MAX_RETRIES - 1
    /\ gen_called' = gen_called \cup {gen_case_id}
    /\ sleeps' = Append(sleeps, WaitTime(attempt))
    /\ attempt' = attempt + 1
    /\ UNCHANGED <<aggregator, grading, inputs, model_results, disk, data,
                   results, processed_count, idx,
                   processed_case_ids, pc, text, call_status, finish_reason,
                   gen_returned>>

\* The last attempt raises: return None, "ERROR: ...", "error".
GenRaisesLast ==
    /\ pc = "gen_call"
    /\ ~(attempt < MAX_RETRIES - 1)
    /\ gen_called' = gen_called \cup {gen_case_id}
    /\ gen_returned' = gen_returned \cup {gen_case_id}
    /\ text' = ExhaustedReturn.text
    /\ finish_reason' = ExhaustedReturn.finish_reason
    /\ call_status' = "exhausted"
    /\ pc' = "gen_record"
    /\ UNCHANGED <<aggregator, grading, inputs, model_results, disk, data,
                   results, processed_count, idx,
                   processed_case_ids, attempt, sleeps>>

\* Variant of GenCheckpointDue: a checkpoint every second case.
GenCheckpointEverySecond(count) == count % 2 = 0

\* Periodic checkpointing: processed_count % 1 == 0.
GenCheckpointDue(count) == count % 1 = 0

\* Lines 228-253: build the record, append, checkpoint, stop on max_cases.
GenRecordCase ==
    /\ pc = "gen_record"
    /\ LET record == [case_id |-> gen_case_id,
                      model_response |-> text,
                      finish_reason |-> finish_reason] IN
        /\ results' = Append(results, record)
        /\ IF GenCheckpointDue(processed_count)
           THEN /\ output_file' = Append(results, record)
                /\ file_exists' = TRUE
                /\ writes' = writes + 1
           ELSE UNCHANGED disk
    /\ processed_case_ids' = processed_case_ids \cup {gen_case_id}
    /\ IF max_cases.set /\ processed_count >= max_cases.n
       THEN /\ pc' = "gen_final"
            /\ idx' = idx
       ELSE /\ pc' = "gen_loop"
            /\ idx' = idx + 1
    /\ UNCHANGED <<aggregator, grading, inputs, model_results, data,
                   processed_count, attempt, sleeps,
                   text, call_status, finish_reason, gen_called, gen_returned>>

GenLoopEnd ==
    /\ pc = "gen_loop"
    /\ idx > Len(data)
    /\ pc' = "gen_final"
    /\ UNCHANGED <<aggregator, grading, inputs, model_results, disk, data,
                   results, processed_count, idx,
                   processed_case_ids, attempt, sleeps, text, call_status,
                   finish_reason, gen_called, gen_returned>>

\* main: save_results(results, output_path) after process_cases returns.
GenFinalSave ==
    /\ pc = "gen_final"
    /\ output_file' = results
    /\ file_exists' = TRUE
    /\ writes' = writes + 1
    /\ pc' = "gen_done"
    /\ UNCHANGED <<aggregator, grading, inputs, model_results, data, results,
                   processed_count, idx,
                   processed_case_ids, attempt, sleeps, text, call_status,
                   finish_reason, gen_called, gen_returned>>

GenNext ==
    \/ GenLoadData
    \/ GenInitClient
    \/ GenLoadExisting
    \/ GenSkipProcessed
    \/ GenBeginCase
    \/ \E reply \in GenReplies : GenReturns(reply)
    \/ GenRaisesRetry
    \/ GenRaisesLast
    \/ GenRecordCase
    \/ GenLoopEnd
    \/ GenFinalSave

SpecGen == GenInit /\ [][GenNext]_vars

(***************************************************************************)
(* The judge's replies for the parser: objects with a field in several     *)
(* spellings, placed in a list, bare, truncated or followed by text, and   *)
(* free texts.                                                             *)
(***************************************************************************)
\* JSON texts of the value of the field: true false null "true" "false" "TRUE" "False" " true " "yes" "no"
MetValues ==
    { <<"t","r","u","e">>,
      <<"f","a","l","s","e">>,
      <<"n","u","l","l">>,
      <<"\"","t","r","u","e","\"">>,
      <<"\"","f","a","l","s","e","\"">>,
      <<"\"","T","R","U","E","\"">>,
      <<"\"","F","a","l","s","e","\"">>,
      <<"\""," ","t","r","u","e"," ","\"">>,
      <<"\"","y","e","s","\"">>,
      <<"\"","n","o","\"">> }

\* JSON texts of its name
MetKeys ==
    { <<"\"","m","e","t","\"">>,
      <<"\"","M","E","T","\"">>,
      <<"\"","o","k","\"">> }

\* object members before it (none, or a question)
MembersBefore ==
    { <<>>,
      <<"\"","q","u","e","s","t","i","o","n","\"",":","\"","i","s"," ","i",
        "t"," ","t","r","u","e","\"",",">> }

\* object members after it (none, a reasoning, or a second met)
MembersAfter ==
    { <<>>,
      <<",","\"","r","e","a","s","o","n","i","n","g","\"",":","\"","n","o",
        "t"," ","s","a","t","i","s","f","i","e","d","\"">>,
      <<",","\"","m","e","t","\"",":","f","a","l","s","e">> }

\* replies that are not built from an object with the field
FreeReplies ==
    { <<>>,
      <<" "," ">>,
      <<"y","e","s">>,
      <<"n","o">>,
      <<"m","a","y","b","e">>,
      <<"u","n","k","n","o","w","n">>,
      <<"T","R","U","E">>,
      <<"f","a","l","s","e">>,
      <<"t","h","e"," ","c","r","i","t","e","r","i","o","n"," ","i","s"," ",
        "s","a","t","i","s","f","i","e","d">>,
      <<"t","h","e"," ","c","r","i","t","e","r","i","o","n"," ","i","s"," ",
        "n","o","t"," ","s","a","t","i","s","f","i","e","d">>,
      <<"\"","m","e","t","\""," ","i","s"," ","t","r","u","e">>,
      <<"\"","m","e","t","\"",":"," ","f","a","l","s","e",","," ","n","o","t",
        " ","t","r","u","e">>,
      <<"[","]">>,
      <<"[","n","u","l","l","]">>,
      <<"{","\"","m","e","t","\"",":","t","r","u","e","}">> }

ReplyShapes ==
    {"list", "padded", "bare", "truncated", "trailing", "second", "notfirst"}

Shaped(shape, members) ==
    LET obj == <<"{">> \o members \o <<"}">> IN
    CASE shape = "list"      -> <<"[">> \o obj \o <<"]">>
      [] shape = "padded"    -> <<" ", "[", " ">> \o obj \o <<" ", "]", " ">>
      [] shape = "bare"      -> obj
      [] shape = "truncated" -> <<"[", "{">> \o members
      [] shape = "trailing"  -> <<"[">> \o obj \o <<"]", " ", "y", "e", "s">>
      [] shape = "second"    -> <<"[">> \o obj \o <<",">> \o ReplyMetTrue \o <<"]">>
      [] shape = "notfirst"  -> <<"[", "n", "u", "l", "l", ",">> \o obj \o <<"]">>

AllReplies ==
    FreeReplies \cup
    { Shaped(shape, b \o k \o <<":">> \o v \o a) :
        shape \in ReplyShapes, b \in MembersBefore, k \in MetKeys,
        v \in MetValues, a \in MembersAfter }

\* A grading run over one case with one criterion, the judge answering with
\* any of the replies above.
ParserInit ==
    /\ rubric_data = << RubricCase(1, "ok") >>
    /\ api_key = TRUE
    /\ input_root = "list"
    /\ model_root = "list"
    /\ model_file = << ModelItem(1, "ok") >>
    /\ model_results = <<>>
    /\ response_field = "model_response"
    /\ resume = FALSE
    /\ max_cases = NoLimit
    /\ file_exists = FALSE
    /\ output_file = <<>>
    /\ prior_file = <<>>
    /\ existing_evaluations = <<>>
    /\ results = <<>>
    /\ outcome = <<>>
    /\ processed_count = 0
    /\ idx = 1
    /\ pc = "main"
    /\ rubric_idx = 1
    /\ model_response = <<>>
    /\ model_evaluations = <<>>
    /\ attempt = 0
    /\ sleeps = <<>>
    /\ text = <<>>
    /\ call_status = "idle"
    /\ judge_log = {}
    /\ writes = 0
    /\ GenerationIdle
    /\ AggregatorIdle

ParserNext ==
    \/ InitClient
    \/ LoadInputs
    \/ LoadExisting
    \/ BeginGrading
    \/ StartJudgeCall
    \/ \E content \in AllReplies : JudgeReturns(content)
    \/ JudgeRaisesRetry
    \/ JudgeRaisesLast
    \/ FinishCase
    \/ LoopEnd
    \/ FinalSave

SpecParser == ParserInit /\ [][ParserNext]_vars

(***************************************************************************)
(* metric_calc.py: the aggregator.  Scores are fractions num/den of        *)
(* integers in lowest terms with den > 0, standing for the floats the      *)
(* code computes.                                                          *)
(***************************************************************************)
RECURSIVE Gcd(_, _)
Gcd(a, b) == IF b = 0 THEN a ELSE Gcd(b, a % b)

Abs(n) == IF n < 0 THEN 0 - n ELSE n

Frac(n, d) ==
    LET g == Gcd(Abs(n), d) IN [num |-> n \div g, den |-> d \div g]

FracZero == Frac(0, 1)

FracOne == Frac(1, 1)

FracAdd(a, b) == Frac(a.num * b.den + b.num * a.den, a.den * b.den)

FracLE(a, b) == a.num * b.den <= b.num * a.den

\* sum(scores)
RECURSIVE FracSum(_, _)
FracSum(scores, n) ==
    IF n = 0 THEN FracZero ELSE FracAdd(FracSum(scores, n - 1), scores[n])

\* sum(scores) / len(scores) of a non-empty list.
Mean(scores) ==
    LET total == FracSum(scores, Len(scores)) IN
    Frac(total.num, total.den * Len(scores))

\* Variant of Clip: the value is left as it is.
ClipNothing(x) == x

\* max(0.0, min(1.0, x))
Clip(x) ==
    IF FracLE(FracOne, x) THEN FracOne
    ELSE IF FracLE(x, FracZero) THEN FracZero
    ELSE x

\* f"{x:.4f}": the number of ten-thousandths nearest to x (the fractions of
\* the inputs are never half-way between two of them).
Format4(x) == (2 * 10000 * x.num + x.den) \div (2 * x.den)

\* Variant of calculate_max_possible_score: every item's points are summed.
RECURSIVE SumOfAllPoints(_, _)
SumOfAllPoints(rubric_items, n) ==
    IF n = 0 THEN 0
    ELSE SumOfAllPoints(rubric_items, n - 1) + rubric_items[n].points

\* calculate_max_possible_score: the sum of the points > 0 of the first n items.
RECURSIVE calculate_max_possible_score(_, _)
calculate_max_possible_score(rubric_items, n) ==
    IF n = 0 THEN 0
    ELSE calculate_max_possible_score(rubric_items, n - 1) +
         (IF rubric_items[n].points > 0 THEN rubric_items[n].points ELSE 0)

\* The keys of rubric_criteria: the non-empty criteria of the rubric.
rubric_criteria(rubric_items) ==
    {rubric_items[k].criterion : k \in 1..Len(rubric_items)} \ {<<>>}

\* Variant of SumWeighted: every entry's weighted_score is summed.
RECURSIVE SumAllWeighted(_, _, _)
SumAllWeighted(evaluations, criteria, n) ==
    IF n = 0 THEN 0
    ELSE SumAllWeighted(evaluations, criteria, n - 1) +
         evaluations[n][2].weighted_score

\* The loop of calculate_case_total_score over the first n entries.
RECURSIVE SumWeighted(_, _, _)
SumWeighted(evaluations, criteria, n) ==
    IF n = 0 THEN 0
    ELSE SumWeighted(evaluations, criteria, n - 1) +
         (IF /\ evaluations[n][2].criterion # <<>>
             /\ evaluations[n][2].criterion \in criteria
          THEN evaluations[n][2].weighted_score
          ELSE 0)

calculate_case_total_score(evaluations, rubric_items) ==
    IF evaluations = <<>> \/ rubric_items = <<>> THEN 0
    ELSE SumWeighted(evaluations, rubric_criteria(rubric_items), Len(evaluations))

\* Timestamps: <<"iso", year, month, day>> is a text datetime.fromisoformat
\* accepts, <<"text", 0, 0, 0>> one it rejects, <<"", 0, 0, 0>> the empty string.
EmptyTime == <<"", 0, 0, 0>>

BadTime == <<"text", 0, 0, 0>>

IsoTime(y, m, d) == <<"iso", y, m, d>>

\* The month "Unknown".
Unknown == <<0, 0>>

\* extract_year_month: strftime("%Y-%m") of the parsed time, "Unknown" when
\* parsing raises.
extract_year_month(post_time) ==
    IF post_time[1] = "iso" THEN <<post_time[2], post_time[3]>> ELSE Unknown

\* not case_id
Falsy(case_id) == case_id = NoneId \/ case_id = <<"int", 0>>

\* The score of one case from its total and its maximum (lines 183-186).
per_example_score(total_score, max_possible_score) ==
    IF max_possible_score > 0
    THEN Frac(total_score, max_possible_score)
    ELSE FracZero

\* Variant of RubricInfo: the mapping is asked for str(case_id).
RubricInfoByStr(mapping, case_id) ==
    IF InDict(mapping, PyStr(case_id))
    THEN DictGet(mapping, PyStr(case_id))
    ELSE [post_time |-> EmptyTime, rubric_items |-> <<>>]

\* rubric_mapping.get(case_id, {}) with the defaults of the two .get calls
\* that follow it (lines 175-177).
RubricInfo(mapping, case_id) ==
    IF InDict(mapping, case_id)
    THEN DictGet(mapping, case_id)
    ELSE [post_time |-> EmptyTime, rubric_items |-> <<>>]

\* Variant of calculate_model_scores: a record with an empty mapping gets no
\* score, like a record without case_id.
RECURSIVE ScoresOfGradedRecords(_, _, _)
ScoresOfGradedRecords(evaluation_data, mapping, n) ==
    IF n = 0 THEN <<>>
    ELSE
      LET case_scores == ScoresOfGradedRecords(evaluation_data, mapping, n - 1)
          case_eval == evaluation_data[n]
          rubric_info == RubricInfo(mapping, case_eval.case_id)
          rubric_items == rubric_info.rubric_items
          total_score ==
              calculate_case_total_score(case_eval.evaluations, rubric_items)
          max_possible_score ==
              calculate_max_possible_score(rubric_items, Len(rubric_items))
      IN IF Falsy(case_eval.case_id) \/ case_eval.evaluations = <<>>
         THEN case_scores
         ELSE DictPut(case_scores, case_eval.case_id,
                      [score |-> per_example_score(total_score, max_possible_score),
                       post_time |-> rubric_info.post_time,
                       year_month |->
                           IF rubric_info.post_time # EmptyTime
                           THEN extract_year_month(rubric_info.post_time)
                           ELSE Unknown])

\* calculate_model_scores over the first n records of evaluation_data.
RECURSIVE calculate_model_scores(_, _, _)
calculate_model_scores(evaluation_data, mapping, n) ==
    IF n = 0 THEN <<>>
    ELSE
      LET case_scores == calculate_model_scores(evaluation_data, mapping, n - 1)
          case_eval == evaluation_data[n]
          rubric_info == RubricInfo(mapping, case_eval.case_id)
          rubric_items == rubric_info.rubric_items
          total_score ==
              calculate_case_total_score(case_eval.evaluations, rubric_items)
          max_possible_score ==
              calculate_max_possible_score(rubric_items, Len(rubric_items))
      IN IF Falsy(case_eval.case_id) THEN case_scores
         ELSE DictPut(case_scores, case_eval.case_id,
                      [score |-> per_example_score(total_score, max_possible_score),
                       post_time |-> rubric_info.post_time,
                       year_month |->
                           IF rubric_info.post_time # EmptyTime
                           THEN extract_year_month(rubric_info.post_time)
                           ELSE Unknown])

\* The loop of main over rubric_data that builds rubric_mapping (lines 224-234).
RECURSIVE BuildRubricMapping(_, _)
BuildRubricMapping(cases, n) ==
    IF n = 0 THEN <<>>
    ELSE IF cases[n].case_id = NoneId THEN BuildRubricMapping(cases, n - 1)
    ELSE DictPut(BuildRubricMapping(cases, n - 1), PyStr(cases[n].case_id),
                 [post_time |-> cases[n].post_time,
                  rubric_items |-> cases[n].rubric_items])

(***************************************************************************)
(* Inputs of an aggregator run: the rubric file and one evaluation file    *)
(* per model, as the grading run writes them.                              *)
(***************************************************************************)
NumMetricCases == 3

CritC == <<"c">>

CritOld == <<"o">>

\* Model names in ascending order, as sorted() orders them.
AllModelNames == <<"alpha", "beta">>

\* The last case of the rubric file: id type, rubric items and timestamp vary.
LastCaseVariants ==
    { [case_id |-> <<"str", NumMetricCases>>,
       post_time |-> IsoTime(2025, 5, 1),
       rubric_items |-> << [criterion |-> CritA, points |-> 10],
                           [criterion |-> CritC, points |-> 3] >>],
      [case_id |-> <<"str", NumMetricCases>>,
       post_time |-> IsoTime(2024, 12, 31),
       rubric_items |-> << [criterion |-> CritB, points |-> 0 - 5] >>],
      [case_id |-> <<"str", NumMetricCases>>,
       post_time |-> EmptyTime,
       rubric_items |-> << [criterion |-> CritA, points |-> 10] >>],
      [case_id |-> <<"str", NumMetricCases>>,
       post_time |-> BadTime,
       rubric_items |-> << [criterion |-> CritA, points |-> 10] >>],
      [case_id |-> <<"int", NumMetricCases>>,
       post_time |-> IsoTime(2025, 5, 1),
       rubric_items |-> << [criterion |-> CritA, points |-> 10] >>],
      [case_id |-> <<"str", NumMetricCases>>,
       post_time |-> IsoTime(2025, 5, 1),
       rubric_items |-> <<>>],
      [case_id |-> <<"str", NumMetricCases>>,
       post_time |-> IsoTime(2025, 5, 1),
       rubric_items |-> << [criterion |-> <<>>, points |-> 3],
                           [criterion |-> CritA, points |-> 10] >>] }

\* The rubric file: a first case with a positive and a penalty criterion,
\* cases with one positive criterion in the same month, and the last case.
MetricCase(i, last) ==
    IF i = NumMetricCases THEN last
    ELSE [case_id |-> <<"str", i>>,
          post_time |-> IsoTime(2025, 4, 7 + i),
          rubric_items |->
              IF i = 1
              THEN << [criterion |-> CritA, points |-> 10],
                      [criterion |-> CritB, points |-> 0 - 5] >>
              ELSE << [criterion |-> CritA, points |-> 10] >>]

\* How a grading run left a case in an evaluation file: no record, a record
\* with an empty mapping, or a record with a score per criterion: all met,
\* none met, only the first met, all but the first met, all met in a
\* record that also has an entry for a criterion no longer in the rubric and
\* an entry without a criterion, or only the first met in a record graded
\* when that criterion had twice its present points.
EvalKinds ==
    {"absent", "empty", "met", "unmet", "first", "rest", "stale", "older"}

ScoreOf(kind, k) ==
    CASE kind = "unmet" -> 0
      [] kind \in {"first", "older"} -> IF k = 1 THEN 1 ELSE 0
      [] kind = "rest"  -> IF k = 1 THEN 0 ELSE 1
      [] OTHER          -> 1

\* The rubric item at position k as the grading run saw it.
ItemWhenGraded(item, kind, k) ==
    IF kind = "older" /\ k = 1
    THEN [criterion |-> item.criterion, points |-> 2 * item.points]
    ELSE item

\* model_evaluations of process_evaluations for the first n rubric items.
RECURSIVE GradedEvaluations(_, _, _)
GradedEvaluations(items, kind, n) ==
    IF n = 0 THEN <<>>
    ELSE IF items[n].criterion = <<>> THEN GradedEvaluations(items, kind, n - 1)
    ELSE Append(GradedEvaluations(items, kind, n - 1),
                <<n, Entry(ItemWhenGraded(items[n], kind, n), ScoreOf(kind, n))>>)

StaleEntry == <<0, Entry([criterion |-> CritOld, points |-> 7], 1)>>

BlankEntry == <<0 - 1, Entry([criterion |-> <<>>, points |-> 2], 1)>>

EvalRecord(c, kind) ==
    [case_id |-> c.case_id,
     evaluations |->
        CASE kind = "empty" -> <<>>
          [] kind = "stale" ->
               <<StaleEntry, BlankEntry>> \o
               GradedEvaluations(c.rubric_items, kind, Len(c.rubric_items))
          [] OTHER ->
               GradedEvaluations(c.rubric_items, kind, Len(c.rubric_items))]

\* The evaluation file of a model: the records of the cases not "absent",
\* in rubric order.
RECURSIVE EvalFile(_, _, _)
EvalFile(cases, kinds, n) ==
    IF n = 0 THEN <<>>
    ELSE IF kinds[n] = "absent" THEN EvalFile(cases, kinds, n - 1)
    ELSE Append(EvalFile(cases, kinds, n - 1), EvalRecord(cases[n], kinds[n]))

\* Kinds of the cases in the file of model alpha and in that of model beta.
AlphaKinds ==
    {ks \in [1..NumMetricCases -> EvalKinds] :
        \A i \in 2..(NumMetricCases - 1) : ks[i] \in {"absent", "met", "unmet"}}

BetaKinds ==
    {ks \in [1..NumMetricCases -> {"absent", "met"}] :
        \A i \in 2..(NumMetricCases - 1) : ks[i] = "met"}

\* The orders in which glob can list the two evaluation files.
GlobOrders == { <<1, 2>>, <<2, 1>> }

\* Start-up configurations of the aggregator (it needs no credential):
\* everything in order, the rubric file not a list, the evaluation files not
\* lists.
MetricConfigs == {cfg \in Configs : cfg.api_key}

\* The files glob finds, in the order it lists them: positions in
\* AllModelNames.
FoundFiles == GlobOrders \cup { <<>>, <<1>> }

MetricInit ==
    /\ \E last \in LastCaseVariants, ak \in AlphaKinds, bk \in BetaKinds,
          found \in FoundFiles, cfg \in MetricConfigs :
        LET cases == [i \in 1..NumMetricCases |-> MetricCase(i, last)]
            files == << EvalFile(cases, ak, NumMetricCases),
                        EvalFile(cases, bk, NumMetricCases) >>
        IN  /\ api_key = cfg.api_key
            /\ input_root = cfg.input_root
            /\ model_root = cfg.model_root
            /\ rubric_data = IF cfg.input_root = "list" THEN cases ELSE <<>>
            /\ model_files =
                 [k \in 1..Len(found) |->
                     <<AllModelNames[found[k]],
                       IF cfg.model_root = "list" THEN files[found[k]] ELSE <<>> >>]
    /\ model_file = <<>>
    /\ model_results = <<>>
    /\ response_field = "model_response"
    /\ resume = FALSE
    /\ max_cases = NoLimit
    /\ file_exists = FALSE
    /\ output_file = <<>>
    /\ prior_file = <<>>
    /\ existing_evaluations = <<>>
    /\ results = <<>>
    /\ outcome = <<>>
    /\ processed_count = 0
    /\ idx = 1
    /\ pc = "metric_main"
    /\ rubric_idx = 1
    /\ model_response = <<>>
    /\ model_evaluations = <<>>
    /\ attempt = 0
    /\ sleeps = <<>>
    /\ text = <<>>
    /\ call_status = "idle"
    /\ judge_log = {}
    /\ writes = 0
    /\ GenerationIdle
    /\ rubric_mapping = <<>>
    /\ all_model_scores = <<>>
    /\ monthly_avg = <<>>
    /\ monthly_case_counts = <<>>
    /\ overall_avgs = <<>>
    /\ tsv = NoTable

\* What an aggregator run leaves alone: the variables of the other stages.
other_stages ==
    <<generation, inputs, model_results, disk, run_state>>

\* main, lines 211-219: without evaluation files the run ends with no table.
MetricLoadModelFiles ==
    /\ pc = "metric_main"
    /\ pc' = IF model_files = <<>> THEN "metric_done" ELSE "metric_rubric"
    /\ UNCHANGED <<other_stages, aggregator>>

\* main, lines 221-235: load_json_file raises TypeError unless the rubric
\* file is a list; then rubric_mapping is built.
MetricLoadRubric ==
    /\ pc = "metric_rubric"
    /\ IF input_root = "list"
       THEN /\ rubric_mapping' = BuildRubricMapping(rubric_data, Len(rubric_data))
            /\ pc' = "metric_models"
       ELSE /\ pc' = "raised"
            /\ UNCHANGED rubric_mapping
    /\ UNCHANGED <<generation, inputs, model_results, disk, existing_evaluations,
                   results, outcome, processed_count, idx, rubric_idx,
                   model_response, model_evaluations, client, judge_log,
                   model_files, all_model_scores, monthly_avg,
                   monthly_case_counts, overall_avgs, tsv>>

\* main, lines 240-245: one turn of the loop over model_files.items().
MetricScoreModel ==
    /\ pc = "metric_models"
    /\ idx <= Len(model_files)
    /\ IF model_root = "list"
       THEN /\ all_model_scores' =
                 DictPut(all_model_scores, model_files[idx][1],
                         calculate_model_scores(model_files[idx][2], rubric_mapping,
                                                Len(model_files[idx][2])))
            /\ idx' = idx + 1
            /\ pc' = pc
       ELSE /\ pc' = "raised"
            /\ UNCHANGED <<all_model_scores, idx>>
    /\ UNCHANGED <<generation, inputs, model_results, disk, existing_evaluations,
                   results, outcome, processed_count, rubric_idx,
                   model_response, model_evaluations, client, judge_log,
                   model_files, rubric_mapping, monthly_avg,
                   monthly_case_counts, overall_avgs, tsv>>

\* "%Y-%m" texts compared as strings: by year, then by month (years of four
\* digits).
MonthLess(a, b) == a[1] < b[1] \/ (a[1] = b[1] /\ a[2] < b[2])

\* sorted() of a set of months.
RECURSIVE SortedMonths(_)
SortedMonths(months) ==
    IF months = {} THEN <<>>
    ELSE LET first == CHOOSE m \in months : \A o \in months : ~MonthLess(o, m)
         IN <<first>> \o SortedMonths(months \ {first})

\* sorted(model_files.keys())
SortedNames(files) == SelectSeq(AllModelNames, LAMBDA name : InDict(files, name))

\* Variant of AllMonths: "Unknown" is kept as a month.
AllMonthsWithUnknown(scores) ==
    UNION {{scores[k][2][j][2].year_month : j \in 1..Len(scores[k][2])} :
              k \in 1..Len(scores)}

\* The months of all cases of all models, "Unknown" left out (lines 254-259).
AllMonths(scores) ==
    UNION {{scores[k][2][j][2].year_month : j \in 1..Len(scores[k][2])} :
              k \in 1..Len(scores)} \ {Unknown}

\* monthly_scores[year_month][model_name]: the scores of the cases of a
\* model in a month, in the order of case_scores.
MonthlyScores(case_scores, year_month) ==
    LET infos == SelectSeq(Values(case_scores),
                           LAMBDA info : info.year_month = year_month)
    IN [j \in 1..Len(infos) |-> infos[j].score]

\* monthly_case_counts after the first n cases of the first model (line 271).
RECURSIVE CountCases(_, _)
CountCases(infos, n) ==
    IF n = 0 THEN <<>>
    ELSE LET counts == CountCases(infos, n - 1)
             year_month == infos[n].year_month
         IN IF year_month = Unknown THEN counts
            ELSE DictPut(counts, year_month,
                         (IF InDict(counts, year_month)
                          THEN DictGet(counts, year_month) ELSE 0) + 1)

\* The mean of a list of scores clipped to [0, 1], 0.0 for an empty list
\* (lines 277-282 and 287-292).
ClippedMean(scores) ==
    IF scores # <<>> THEN Clip(Mean(scores)) ELSE FracZero

\* d.get(key, 0.0) and the read of a defaultdict(int).
GetOr(d, key, default) == IF InDict(d, key) THEN DictGet(d, key) ELSE default

\* Variant of OverallAverage: the mean of the model's monthly means.
OverallFromMonthlyMeans(case_scores) ==
    LET months ==
            SortedMonths({case_scores[j][2].year_month :
                             j \in 1..Len(case_scores)} \ {Unknown})
    IN ClippedMean([m \in 1..Len(months) |->
                       ClippedMean(MonthlyScores(case_scores, months[m]))])

\* The overall average of a model: the mean of the scores of all entries of
\* its case_scores, clipped to [0, 1], 0.0 without an entry (lines 286-292).
OverallAverage(case_scores) ==
    LET infos == Values(case_scores)
    IN ClippedMean([j \in 1..Len(infos) |-> infos[j].score])

\* main, lines 247-292: the months, the case counts of the first model, the
\* monthly means and the overall means.
MetricAggregate ==
    /\ pc = "metric_models"
    /\ idx > Len(model_files)
    /\ LET months == SortedMonths(AllMonths(all_model_scores))
           first_model_name == all_model_scores[1][1]
       IN /\ monthly_case_counts' =
               LET infos == Values(DictGet(all_model_scores, first_model_name))
               IN CountCases(infos, Len(infos))
          /\ monthly_avg' =
               [m \in 1..Len(months) |->
                  <<months[m],
                    [k \in 1..Len(model_files) |->
                       <<model_files[k][1],
                         ClippedMean(MonthlyScores(
                             DictGet(all_model_scores, model_files[k][1]),
                             months[m]))>>]>>]
    /\ overall_avgs' =
         [k \in 1..Len(all_model_scores) |->
            <<all_model_scores[k][1], OverallAverage(all_model_scores[k][2])>>]
    /\ pc' = "metric_write"
    /\ UNCHANGED <<other_stages, model_files, rubric_mapping, all_model_scores,
                   tsv>>

\* total_cases = sum(monthly_case_counts.values())
RECURSIVE SumCounts(_, _)
SumCounts(counts, n) ==
    IF n = 0 THEN 0 ELSE SumCounts(counts, n - 1) + counts[n][2]

\* The keys of a dict.
Keys(d) == {d[k][1] : k \in 1..Len(d)}

\* main, lines 294-322: the header, one line per month in ascending order,
\* then the line Overall.
MetricWrite ==
    /\ pc = "metric_write"
    /\ LET all_model_names == SortedNames(model_files)
           months == SortedMonths(Keys(monthly_avg))
       IN tsv' =
            [written |-> TRUE,
             header |-> all_model_names,
             lines |->
               [m \in 1..Len(months) |->
                  [label |-> "month",
                   month |-> months[m],
                   cells |->
                     [j \in 1..Len(all_model_names) |->
                        Format4(GetOr(DictGet(monthly_avg, months[m]),
                                      all_model_names[j], FracZero))],
                   count |-> GetOr(monthly_case_counts, months[m], 0)]]
               \o
               << [label |-> "Overall",
                   month |-> Unknown,
                   cells |->
                     [j \in 1..Len(all_model_names) |->
                        Format4(GetOr(overall_avgs, all_model_names[j], FracZero))],
                   count |-> SumCounts(monthly_case_counts,
                                       Len(monthly_case_counts))] >>]
    /\ pc' = "metric_done"
    /\ UNCHANGED <<other_stages, model_files, rubric_mapping, all_model_scores,
                   monthly_avg, monthly_case_counts, overall_avgs>>

MetricNext ==
    \/ MetricLoadModelFiles
    \/ MetricLoadRubric
    \/ MetricScoreModel
    \/ MetricAggregate
    \/ MetricWrite

SpecMetric == MetricInit /\ [][MetricNext]_vars

(***************************************************************************)
(* Properties of the grading run (Spec)                                    *)
(***************************************************************************)
\* str(case_id) of the records the run found in the output file.
StoredKeys == {PyStr(prior_file[k].case_id) : k \in 1..Len(prior_file)}

\* The rubric file has a case with this key and a non-empty rubric.
HasRubricItems(key) ==
    \E i \in 1..Len(rubric_data) :
        /\ rubric_data[i].case_id # NoneId
        /\ PyStr(rubric_data[i].case_id) = key
        /\ rubric_data[i].rubric_items # <<>>

Resuming == resume /\ prior_file # <<>>

\* C1: in a run started with resume and an existing output file, no judge
\* request is sent for a case_id present in that file, and every record the
\* output file holds for such a case_id (whose rubric has items) is identical
\* to the stored record, in every state of the run, hence in every persist.
C1_ResumeReusesStored ==
    Resuming =>
        /\ judge_log \cap StoredKeys = {}
        /\ \A key \in StoredKeys :
            HasRubricItems(key) =>
                /\ \E k \in 1..Len(output_file) : PyStr(output_file[k].case_id) = key
                /\ \A k \in 1..Len(output_file) :
                     PyStr(output_file[k].case_id) = key =>
                        \E j \in 1..Len(prior_file) : prior_file[j] = output_file[k]

\* A resumed run has finished: it reused a stored record and graded other cases.
C1_Witness ==
    /\ Resuming
    /\ pc = "done"
    /\ \E k \in 1..Len(outcome) : outcome[k] = "reused"
    /\ \E k \in 1..Len(outcome) : outcome[k] = "graded"
    /\ judge_log # {}

\* C2: every output file holds exactly one record per case handled so far;
\* no case_id appears in two records (case_ids being unique in the rubric
\* file and in the prior output file, as they are in every initial state).
C2_OneRecordPerCase ==
    /\ \A i, j \in 1..Len(output_file) :
         i # j => PyStr(output_file[i].case_id) # PyStr(output_file[j].case_id)
    /\ pc = "done" =>
         \A i \in 1..(idx - 1) :
            rubric_data[i].case_id # NoneId =>
                \E k \in 1..Len(output_file) :
                    PyStr(output_file[k].case_id) = PyStr(rubric_data[i].case_id)

\* Records of cases fully graded in this run that are not in the output file.
MissingGraded ==
    {k \in 1..Len(results) :
        /\ outcome[k] = "graded"
        /\ ~\E j \in 1..Len(output_file) : output_file[j] = results[k]}

\* C3 as stated: at any point of a grading run at most one case fully graded
\* in this run is missing from the output file on disk.
C3_AtMostOneGradedCaseLost == Cardinality(MissingGraded) <= 1

\* The count of newly processed cases when results[k] was appended.
NewlyProcessed(k) ==
    Cardinality({i \in 1..k : outcome[i] \in {"graded", "nomodel", "noresponse"}})

\* Position in results of the last graded case that brought the count of
\* newly processed cases to a multiple of 5 (0 if there is none).
LastCheckpoint ==
    LET at == {k \in 1..Len(results) :
                 outcome[k] = "graded" /\ NewlyProcessed(k) % 5 = 0} IN
    IF at = {} THEN 0 ELSE CHOOSE k \in at : \A m \in at : m <= k

\* C3 (amended): at any point of a grading run every case fully graded in this
\* run up to the last checkpoint is in the output file on disk; only cases
\* graded after it can be missing, and none is after the final save.
C3_GradedLostOnlySinceCheckpoint ==
    /\ \A k \in MissingGraded : k > LastCheckpoint
    /\ pc = "done" => MissingGraded = {}

\* A checkpoint was written and a case graded after it is not on disk yet.
C3_Witness ==
    /\ LastCheckpoint > 0
    /\ MissingGraded # {}
    /\ pc = "loop"

\* The score recorded for the criterion call_gpt_evaluator was last called for.
JudgedScore == DictGet(model_evaluations, rubric_idx - 1).score

\* C4: for one criterion the judge is requested at most 3 times; the k-th
\* failed attempt is followed by a wait of 2k seconds; the call ends at the
\* first request that returns; after 3 failures it returns 0 and the run goes
\* on with the next criterion.
C4_BoundedRetry ==
    /\ call_status # "idle" =>
         /\ attempt + 1 <= 3
         /\ sleeps = [k \in 1..attempt |-> 2 * k]
    /\ pc = "call" <=> call_status = "calling"
    /\ call_status = "returned" =>
         /\ pc = "item"
         /\ InDict(model_evaluations, rubric_idx - 1)
    /\ call_status = "exhausted" =>
         /\ attempt + 1 = 3
         /\ pc = "item"
         /\ InDict(model_evaluations, rubric_idx - 1)
         /\ JudgedScore = 0

\* All three requests for a criterion failed, after waits of 2 and 4 seconds.
C4_Witness ==
    /\ call_status = "exhausted"
    /\ sleeps = <<2, 4>>
    /\ JudgedScore = 0

(***************************************************************************)
(* Properties of the judgment parser (SpecParser)                          *)
(***************************************************************************)
\* The field met of the first object of a reply that is a JSON list:
\* "true" / "false" for a boolean or a string equal to it ignoring case.
MetOfReply(t) ==
    LET r == JsonLoads(t) IN
    IF r.ok /\ r.val.t = "list"
    THEN IF r.val.items # <<>> /\ r.val.items[1].t = "obj"
         THEN IF HasKey(r.val.items[1].pairs, <<"m","e","t">>)
              THEN LET met == GetKey(r.val.items[1].pairs, <<"m","e","t">>) IN
                   CASE met.t = "bool" -> IF met.b THEN "true" ELSE "false"
                     [] met.t = "str" /\ Lower(met.s) = <<"t","r","u","e">> -> "true"
                     [] met.t = "str" /\ Lower(met.s) = <<"f","a","l","s","e">> -> "false"
                     [] OTHER -> "other"
              ELSE "absent"
         ELSE "absent"
    ELSE "absent"

\* The met value of the first list element, with blanks around a string ignored.
StructuralRuleMatches(t) ==
    LET r == JsonLoads(t) IN
    /\ r.ok /\ r.val.t = "list"
    /\ r.val.items # <<>>
    /\ r.val.items[1].t = "obj"
    /\ HasKey(r.val.items[1].pairs, <<"m","e","t">>)
    /\ LET met == GetKey(r.val.items[1].pairs, <<"m","e","t">>) IN
        \/ met.t = "bool"
        \/ /\ met.t = "str"
           /\ Lower(Strip(met.s)) \in {<<"t","r","u","e">>, <<"f","a","l","s","e">>}

HasWord(t, w) == Contains(Lower(t), w)

LexicalRuleMatches(t) ==
    /\ HasWord(t, <<"\"","m","e","t","\"">>)
    /\ HasWord(t, <<"t","r","u","e">>) \/ HasWord(t, <<"f","a","l","s","e">>)

Affirmative(t) == HasWord(t, <<"y","e","s">>) \/ HasWord(t, <<"s","a","t","i","s","f">>)

Negative(t) ==
    \/ HasWord(t, <<"n","o">>)
    \/ HasWord(t, <<"n","o","t"," ","s","a","t","i","s","f">>)

\* C5: for every reply the parser gives 0 or 1 and the call returns on that
\* attempt (nothing is raised into the retry loop); when none of the three
\* rules matches the result is 0.
C5_ParserTotalDefaultZero ==
    call_status = "returned" =>
        /\ pc = "item"
        /\ JudgedScore \in {0, 1}
        /\ (/\ ~StructuralRuleMatches(text)
            /\ ~LexicalRuleMatches(text)
            /\ ~Affirmative(text)
            /\ ~Negative(text)) => JudgedScore = 0

\* The reply "maybe" matches no rule and is scored 0.
C5_Witness ==
    /\ call_status = "returned"
    /\ text = <<"m","a","y","b","e">>
    /\ JudgedScore = 0

\* C6: when the reply is a non-empty JSON list whose first object has a field
\* met that is a boolean or a string equal to "true"/"false" ignoring case,
\* the result is 1 for true and 0 for false, whatever else the text contains.
C6_StructuralParsingWins ==
    call_status = "returned" =>
        /\ MetOfReply(text) = "true" => JudgedScore = 1
        /\ MetOfReply(text) = "false" => JudgedScore = 0

\* met is false in a reply whose text also holds the word true: scored 0.
C6_Witness ==
    /\ call_status = "returned"
    /\ MetOfReply(text) = "false"
    /\ HasWord(text, <<"t","r","u","e">>)
    /\ JudgedScore = 0

\* C7: in the keyword fallback (no structural and no lexical match) a reply
\* containing "not satisf" yields 0, a reply containing "yes" or "satisf" and
\* no negative keyword yields 1, and one containing "no" and no affirmative
\* keyword yields 0.
C7_KeywordFallback ==
    (/\ call_status = "returned"
     /\ ~StructuralRuleMatches(text)
     /\ ~LexicalRuleMatches(text)) =>
        /\ HasWord(text, <<"n","o","t"," ","s","a","t","i","s","f">>) => JudgedScore = 0
        /\ (Affirmative(text) /\ ~Negative(text)) => JudgedScore = 1
        /\ (Negative(text) /\ ~Affirmative(text)) => JudgedScore = 0

(***************************************************************************)
(* Properties of the generation run (SpecGen)                              *)
(***************************************************************************)
DataIds == {EffectiveId(data[i], i) : i \in 1..Len(data)}

\* The run resumes from an output file holding a record for every case_id.
ResumingComplete ==
    /\ Resuming
    /\ DataIds \subseteq {prior_file[k].case_id : k \in 1..Len(prior_file)}

\* C8: a generation run started with resume on an output file that holds a
\* record for every case_id of the data makes no call to the generation
\* function and leaves the set of records in the file unchanged.
C8_ResumeCompleteNoCalls ==
    ResumingComplete =>
        /\ gen_called = {}
        /\ {output_file[k] : k \in 1..Len(output_file)} =
           {prior_file[k] : k \in 1..Len(prior_file)}

\* Such a run has finished, its final save included.
C8_Witness ==
    /\ ResumingComplete
    /\ pc = "gen_done"
    /\ Len(output_file) = Len(data)

\* Number of records the run took over from the output file.
LoadedLen == IF Resuming THEN Len(prior_file) ELSE 0

\* The records of the cases whose generation call has completed in this run.
GenCompleted ==
    {results[k] : k \in (LoadedLen + 1)..Len(results)} \cup
    (IF pc = "gen_record"
     THEN {[case_id |-> gen_case_id, model_response |-> text,
            finish_reason |-> finish_reason]}
     ELSE {})

\* C9: the output file is rewritten with all prior and new records after
\* every newly generated case and before the next generation call starts; at
\* any point at most one case whose call has completed is missing from it.
C9_PersistAfterEveryCase ==
    /\ Cardinality({r \in GenCompleted :
                      ~\E j \in 1..Len(output_file) : output_file[j] = r}) <= 1
    /\ (pc \in {"gen_loop", "gen_call"} /\ Len(results) > LoadedLen) =>
            output_file = results

\* A resumed run has saved a new record and the next call has just completed.
C9_Witness ==
    /\ Resuming
    /\ pc = "gen_record"
    /\ Len(results) > LoadedLen
    /\ output_file = results

\* C10: with a maximum-case-count N >= 0 the generation function is called
\* for at most N cases.
C10_AtMostMaxCasesCalls ==
    max_cases.set => Cardinality(gen_called) <= max_cases.n

\* The run has left the loop over the cases for a reason the code gives: the
\* data is used up, or the maximum case count is reached.
GenLoopLeftInOrder ==
    \/ idx > Len(data)
    \/ max_cases.set /\ processed_count >= max_cases.n

\* C11: when the generation function raises on all 3 attempts for a case, the
\* call gives back the error placeholder text with the completion status
\* "error"; the run appends a record with them for that case, writes it to
\* the output file and stands at the next case (it leaves the loop only when
\* the data is used up or the maximum case count is reached).
C11_ExhaustedCallRecordedRunGoesOn ==
    call_status = "exhausted" =>
        /\ attempt = MAX_RETRIES - 1
        /\ pc \in {"gen_record", "gen_loop", "gen_final", "gen_done"}
        /\ pc = "gen_record" =>
              /\ text = ErrorText
              /\ finish_reason = "error"
        /\ pc # "gen_record" =>
              /\ results # <<>>
              /\ results[Len(results)].model_response = ErrorText
              /\ results[Len(results)].finish_reason = "error"
              /\ results[Len(results)].case_id \in gen_called
              /\ output_file = results
        /\ pc = "gen_loop" =>
              results[Len(results)].case_id = EffectiveId(data[idx - 1], idx - 1)
        /\ pc \in {"gen_final", "gen_done"} => GenLoopLeftInOrder

C11_Witness ==
    /\ call_status = "exhausted"
    /\ pc = "gen_loop"
    /\ idx <= Len(data)
    /\ output_file[Len(output_file)].finish_reason = "error"
    /\ sleeps = <<2, 4>>

\* The run was started with a configuration error: no credential, or an input
\* file (rubric file, model-response file) whose JSON root is not a list.
ConfigurationError ==
    \/ ~api_key
    \/ input_root # "list"
    \/ model_root # "list"

\* C12: in a grading run started with a configuration error (missing
\* credential, rubric file or model-response file with a root of the wrong
\* type) no case is processed, no judge call is made and the output file is
\* not written: the run never gets past loading its inputs.
C12_ConfigurationErrorIsFatal ==
    ConfigurationError =>
        /\ results = <<>>
        /\ judge_log = {}
        /\ output_file = prior_file

(***************************************************************************)
(* Properties of the aggregator (SpecMetric)                               *)
(***************************************************************************)
\* The case of the rubric file with the same id as text.
RubricCaseOf(case_id) ==
    rubric_data[CHOOSE i \in 1..Len(rubric_data) :
                    PyStr(rubric_data[i].case_id) = PyStr(case_id)]

HasRubricCase(case_id) ==
    \E i \in 1..Len(rubric_data) : PyStr(rubric_data[i].case_id) = PyStr(case_id)

\* C13: case ids are compared as strings in the aggregator's lookup: for an
\* evaluation record whose case_id, as a string, is the id of a rubric case
\* (a number included), the case's score entry carries that rubric case's
\* timestamp.
C13_AggregatorMatchesIdsAsStrings ==
    \A k \in 1..Len(all_model_scores) :
        \A j \in 1..Len(all_model_scores[k][2]) :
            LET case_id == all_model_scores[k][2][j][1]
                info == all_model_scores[k][2][j][2]
            IN HasRubricCase(case_id) =>
                  info.post_time = RubricCaseOf(case_id).post_time

\* The evaluation records whose score has been computed, each with the
\* score entry calculate_model_scores made for it.
Scored ==
    UNION {
        LET file == DictGet(model_files, all_model_scores[k][1])
            case_scores == all_model_scores[k][2]
        IN {[rec |-> file[j], info |-> DictGet(case_scores, file[j].case_id)] :
               j \in {i \in 1..Len(file) : ~Falsy(file[i].case_id)}}
        : k \in 1..Len(all_model_scores)}

InUnitInterval(x) == FracLE(FracZero, x) /\ FracLE(x, FracOne)

NoNegativeWeightedScore(rec) ==
    \A e \in 1..Len(rec.evaluations) : rec.evaluations[e][2].weighted_score >= 0

\* max_possible_score of the rubric case an evaluation record belongs to.
RubricMax(case_id) ==
    calculate_max_possible_score(RubricCaseOf(case_id).rubric_items,
                                 Len(RubricCaseOf(case_id).rubric_items))

\* C14: for every case, if all weighted scores of its evaluation record are
\* non-negative its normalized score lies in [0,1], and if the
\* max_possible_score of its rubric is 0 its normalized score is 0.
C14_NormalizedScoreInUnitInterval ==
    \A s \in Scored :
        /\ NoNegativeWeightedScore(s.rec) => InUnitInterval(s.info.score)
        /\ (HasRubricCase(s.rec.case_id) /\ RubricMax(s.rec.case_id) = 0) =>
               s.info.score = FracZero

\* The record was graded with the rubric the aggregator reads: each entry
\* is for an item of the case's rubric and has that item's points.
GradedWithCurrentRubric(rec) ==
    /\ HasRubricCase(rec.case_id)
    /\ \A e \in 1..Len(rec.evaluations) :
          \E k \in 1..Len(RubricCaseOf(rec.case_id).rubric_items) :
              /\ RubricCaseOf(rec.case_id).rubric_items[k].criterion =
                     rec.evaluations[e][2].criterion
              /\ RubricCaseOf(rec.case_id).rubric_items[k].points =
                     rec.evaluations[e][2].points

\* C15: the per-case score calculate_model_scores produces for a record
\* graded with the current rubric, which enters the monthly and overall
\* means, is clipped to [0,1]: never below 0 and never above 1, also when met
\* penalty criteria outweigh met positive criteria.
C15_PerCaseScoreClipped ==
    \A s \in Scored :
        GradedWithCurrentRubric(s.rec) => InUnitInterval(s.info.score)

\* The items of a rubric with points > 0.
PositiveItems(rubric_items) ==
    SelectSeq(rubric_items, LAMBDA item : item.points > 0)

MaxOf(rubric_items) ==
    calculate_max_possible_score(rubric_items, Len(rubric_items))

NonPositivePoints == {0, 0 - 5, 0 - 20}

\* The sum of points x score over the entries of a record.
RECURSIVE PointsTimesScore(_, _)
PointsTimesScore(evaluations, n) ==
    IF n = 0 THEN 0
    ELSE PointsTimesScore(evaluations, n - 1) +
         evaluations[n][2].points * evaluations[n][2].score

TenAndPenaltyBothMet(rec) ==
    /\ Len(rec.evaluations) = 2
    /\ rec.evaluations[1][2].points = 10 /\ rec.evaluations[1][2].score = 1
    /\ rec.evaluations[2][2].points = 0 - 5 /\ rec.evaluations[2][2].score = 1

\* C16: max_possible_score of a rubric is the sum of the points of its items
\* with points > 0; removing the items with points <= 0, adding one, or
\* changing the points of one to another value <= 0 leaves it unchanged; the
\* total of a record graded with the rubric is the sum of points x score, so
\* a met penalty criterion lowers it by its points (+10 and -5 both met:
\* total 5, max 10, normalized score 1/2).
C16_MaxCountsPositivePointsOnly ==
    /\ \A m \in 1..Len(rubric_mapping) :
         LET items == rubric_mapping[m][2].rubric_items IN
         /\ MaxOf(items) =
               SumOfAllPoints(PositiveItems(items), Len(PositiveItems(items)))
         /\ MaxOf(PositiveItems(items)) = MaxOf(items)
         /\ \A p \in NonPositivePoints :
               /\ MaxOf(Append(items, [criterion |-> CritOld, points |-> p])) =
                     MaxOf(items)
               /\ \A k \in 1..Len(items) :
                     items[k].points <= 0 =>
                        MaxOf([items EXCEPT ![k].points = p]) = MaxOf(items)
    /\ \A s \in Scored :
         (GradedWithCurrentRubric(s.rec) /\ InDict(rubric_mapping, s.rec.case_id)) =>
            LET items == DictGet(rubric_mapping, s.rec.case_id).rubric_items IN
            /\ calculate_case_total_score(s.rec.evaluations, items) =
                  PointsTimesScore(s.rec.evaluations, Len(s.rec.evaluations))
            /\ TenAndPenaltyBothMet(s.rec) =>
                  /\ calculate_case_total_score(s.rec.evaluations, items) = 5
                  /\ MaxOf(items) = 10
                  /\ s.info.score = Frac(1, 2)

C16_Witness ==
    \E s \in Scored :
        /\ GradedWithCurrentRubric(s.rec)
        /\ TenAndPenaltyBothMet(s.rec)
        /\ s.info.score = Frac(1, 2)

\* The means have been computed.
Aggregated == pc \in {"metric_write", "metric_done"}

\* The timestamp of a case is missing or unparseable.
NoUsableTime(info) == info.post_time[1] # "iso"

\* The scores of the cases of a model whose timestamp lies in a month, and
\* the scores of all its cases, in the order of case_scores.
ScoresInMonth(name, month) ==
    LET infos == SelectSeq(Values(DictGet(all_model_scores, name)),
                           LAMBDA info : /\ ~NoUsableTime(info)
                                         /\ info.post_time[2] = month[1]
                                         /\ info.post_time[3] = month[2])
    IN [j \in 1..Len(infos) |-> infos[j].score]

AllScoresOf(name) ==
    LET infos == Values(DictGet(all_model_scores, name))
    IN [j \in 1..Len(infos) |-> infos[j].score]

\* C17: a case whose timestamp is missing or unparseable appears in no
\* monthly row: every monthly mean is the mean over the cases with a
\* timestamp in that month, every month's case count counts only such cases
\* of the first model, and there is no row for such a case; its normalized
\* score is included in its model's overall average.
C17_UnknownMonthOnlyInOverall ==
    Aggregated =>
        /\ Unknown \notin Keys(monthly_avg)
        /\ \A m \in 1..Len(monthly_avg) : \A k \in 1..Len(monthly_avg[m][2]) :
              monthly_avg[m][2][k][2] =
                 ClippedMean(ScoresInMonth(monthly_avg[m][2][k][1], monthly_avg[m][1]))
        /\ \A c \in 1..Len(monthly_case_counts) :
              /\ monthly_case_counts[c][1] # Unknown
              /\ monthly_case_counts[c][2] =
                    Len(ScoresInMonth(all_model_scores[1][1], monthly_case_counts[c][1]))
        /\ \A k \in 1..Len(overall_avgs) :
              overall_avgs[k][2] = ClippedMean(AllScoresOf(overall_avgs[k][1]))
        /\ tsv.written =>
              \A l \in 1..Len(tsv.lines) :
                  tsv.lines[l].label = "month" => tsv.lines[l].month # Unknown

\* The table is written with a monthly row, and a model has a case without
\* usable timestamp that scores 1 while all its cases in months score 0: its
\* overall mean is above 0.
C17_Witness ==
    /\ pc = "metric_done"
    /\ tsv.written
    /\ Len(tsv.lines) > 1
    /\ \E k \in 1..Len(all_model_scores) :
          /\ \E j \in 1..Len(all_model_scores[k][2]) :
                /\ NoUsableTime(all_model_scores[k][2][j][2])
                /\ all_model_scores[k][2][j][2].score = FracOne
          /\ \E j \in 1..Len(all_model_scores[k][2]) :
                ~NoUsableTime(all_model_scores[k][2][j][2])
          /\ \A j \in 1..Len(all_model_scores[k][2]) :
                ~NoUsableTime(all_model_scores[k][2][j][2]) =>
                    all_model_scores[k][2][j][2].score = FracZero
          /\ DictGet(overall_avgs, all_model_scores[k][1]) # FracZero

\* The cell of a model in a month: the mean of its scores in the month
\* clipped to [0,1] and written with four decimals, 0.0000 without a case.
ExpectedCell(name, month) ==
    LET scores == MonthlyScores(DictGet(all_model_scores, name), month) IN
    IF scores = <<>> THEN 0
    ELSE IF FracLE(Mean(scores), FracZero) THEN 0
    ELSE IF FracLE(FracOne, Mean(scores)) THEN 10000
    ELSE Format4(Mean(scores))

MonthLines == SelectSeq(tsv.lines, LAMBDA line : line.label = "month")

\* C18: in the table written, the header names every model found in the
\* evaluation directory once; every monthly row has one cell per model, the
\* mean of the model's normalized case scores of that month clipped to
\* [0,1], or 0.0 when the model has no case in the month; there is one row
\* per month that has a case, the rows are in ascending month order and the
\* row Overall is last.
C18_MonthlyRowsOneCellPerModel ==
    tsv.written =>
        /\ Len(tsv.header) = Len(model_files)
        /\ {tsv.header[j] : j \in 1..Len(tsv.header)} = Keys(model_files)
        /\ \A l \in 1..Len(tsv.lines) :
              /\ Len(tsv.lines[l].cells) = Len(model_files)
              /\ tsv.lines[l].label = "month" =>
                    \A j \in 1..Len(tsv.header) :
                        tsv.lines[l].cells[j] =
                           ExpectedCell(tsv.header[j], tsv.lines[l].month)
        /\ {MonthLines[l].month : l \in 1..Len(MonthLines)} =
              AllMonthsWithUnknown(all_model_scores) \ {Unknown}
        /\ \A l \in 1..(Len(tsv.lines) - 1) :
              /\ tsv.lines[l].label = "month"
              /\ l > 1 => MonthLess(tsv.lines[l - 1].month, tsv.lines[l].month)
        /\ tsv.lines[Len(tsv.lines)].label = "Overall"

\* A table of two models with two monthly rows, in one of which a model has
\* no case (cell 0.0000) while the other has a mean above 0, and with a cell
\* strictly between 0 and 1.
C18_Witness ==
    /\ tsv.written
    /\ Len(tsv.header) = 2
    /\ Len(MonthLines) = 2
    /\ \E l \in 1..Len(MonthLines) : \E j, o \in 1..2 :
          /\ MonthlyScores(DictGet(all_model_scores, tsv.header[j]),
                           MonthLines[l].month) = <<>>
          /\ MonthLines[l].cells[j] = 0
          /\ MonthLines[l].cells[o] > 0
    /\ \E l \in 1..Len(MonthLines) : \E j \in 1..2 :
          /\ MonthLines[l].cells[j] > 0
          /\ MonthLines[l].cells[j] < 10000

(***************************************************************************)
(* Skip states of the grading run (Spec)                                   *)
(***************************************************************************)
\* The case at position i of the rubric file has rubric items and is not
\* reused from prior results.
ToBeGraded(i) ==
    /\ rubric_data[i].case_id # NoneId
    /\ rubric_data[i].rubric_items # <<>>
    /\ ~(Resuming /\ PyStr(rubric_data[i].case_id) \in StoredKeys)

\* The case has no entry in the model-response index, or its response text
\* is empty in the configured field and in the field "response".
NoResponseFor(i) ==
    LET key == PyStr(rubric_data[i].case_id) IN
    \/ ~InDict(model_results, key)
    \/ /\ DictGet(model_results, key).model_response = <<>>
       /\ DictGet(model_results, key).response = <<>>

\* C19: for a case that has rubric items and is not reused, if its case_id
\* is absent from the model-response index or its response text is empty in
\* the configured field and in the field "response", no judge request is
\* sent for the case and, once the run has handled the case, results holds a
\* record for it whose evaluations mapping is empty, and no other.
C19_NoResponseGivesEmptyRecord ==
    pc \notin {"main", "load", "raised"} =>
        \A i \in 1..Len(rubric_data) :
            (ToBeGraded(i) /\ NoResponseFor(i)) =>
                /\ PyStr(rubric_data[i].case_id) \notin judge_log
                /\ i < idx =>
                      /\ \E k \in 1..Len(results) :
                            results[k].case_id = rubric_data[i].case_id
                      /\ \A k \in 1..Len(results) :
                            results[k].case_id = rubric_data[i].case_id =>
                                results[k].evaluations = <<>>

\* A finished run that graded cases and met a case whose response is empty
\* in both fields.
C19_Witness ==
    /\ pc = "done"
    /\ judge_log # {}
    /\ \E i \in 1..Len(rubric_data) :
          /\ ToBeGraded(i)
          /\ InDict(model_results, PyStr(rubric_data[i].case_id))
          /\ NoResponseFor(i)
          /\ i < idx
          /\ output_file[i].evaluations = <<>>

\* C20: for every case whose rubric has no items the run emits an empty
\* record, whether or not its case_id is among the results loaded on resume:
\* once the case is handled results holds an empty record for it, and the
\* finished output file holds no record for the case that is not empty (a
\* prior record is not carried into the output in its place).
C20_NoRubricAlwaysEmptyRecord ==
    \A i \in 1..Len(rubric_data) :
        (/\ rubric_data[i].case_id # NoneId
         /\ rubric_data[i].rubric_items = <<>>
         /\ i < idx) =>
            /\ \E k \in 1..Len(results) :
                  /\ results[k].case_id = rubric_data[i].case_id
                  /\ results[k].evaluations = <<>>
            /\ pc = "done" =>
                  \A k \in 1..Len(output_file) :
                      PyStr(output_file[k].case_id) = PyStr(rubric_data[i].case_id) =>
                          output_file[k].evaluations = <<>>

(***************************************************************************)
(* Checkpoints and records of the grading run (Spec)                       *)
(***************************************************************************)
\* results[k] is the record of a case newly processed in this run (line 376).
NewlyProcessedAt(k) == outcome[k] \in {"graded", "nomodel", "noresponse"}

\* Positions in results at which the count of newly processed cases reached a
\* multiple of 5.
ReachedMultiple ==
    {k \in 1..Len(results) :
        NewlyProcessedAt(k) /\ NewlyProcessed(k) % CHECKPOINT_EVERY = 0}

InOutputFile(record) == \E j \in 1..Len(output_file) : output_file[j] = record

\* C21: each time the count of cases newly processed in this run reaches a
\* multiple of 5 the output file is rewritten with the resumed and the new
\* records, whatever skip states occur in between: every case graded up to
\* that point is in the file, and so is every resumed record; hence when a
\* case starts processing at most 4 newly graded cases are missing from the
\* file.
C21_CheckpointAtEveryFifthCase ==
    /\ \A k \in ReachedMultiple :
         /\ \A j \in 1..k : outcome[j] = "graded" => InOutputFile(results[j])
         /\ \A j \in 1..Len(existing_evaluations) :
              InOutputFile(existing_evaluations[j][2])
    /\ AtCase => Cardinality(MissingGraded) <= CHECKPOINT_EVERY - 1

\* The keys of a dict in insertion order.
KeysInOrder(d) == [k \in 1..Len(d) |-> d[k][1]]

\* The rubric items of the case of the rubric file a record belongs to.
RubricItemsFor(record) ==
    LET i == CHOOSE i \in 1..Len(rubric_data) :
                 rubric_data[i].case_id = record.case_id IN
    rubric_data[i].rubric_items

\* Position in the rubric file of the case a record belongs to.
PositionOf(record) ==
    CHOOSE i \in 1..Len(rubric_data) : rubric_data[i].case_id = record.case_id

\* The 1-based positions, in rubric order, of the items among the first n
\* whose criterion is not empty.
NonEmptyCriteria(items, n) ==
    SelectSeq([k \in 1..n |-> k], LAMBDA k : items[k].criterion # <<>>)

\* The entry stored under rubric_<k> is that of item k, scored 0 or 1.
EntryOfItem(entry, item) ==
    /\ entry.criterion = item.criterion
    /\ entry.points = item.points
    /\ entry.score \in {0, 1}
    /\ entry.weighted_score = item.points * entry.score

\* C22: the evaluation mapping of a graded case has exactly one entry per
\* rubric item with a non-empty criterion, keyed by the item's 1-based
\* position among all items, with score 0 or 1 and weighted_score = points x
\* score; the entries are made in rubric order (while a case is graded the
\* mapping holds the items before the current one, in order), and the records
\* of a run follow the order of the cases in the rubric file.
C22_OneEntryPerNonEmptyCriterion ==
    /\ \A k \in 1..Len(results) :
         outcome[k] = "graded" =>
            LET items == RubricItemsFor(results[k])
                evals == results[k].evaluations IN
            /\ KeysInOrder(evals) = NonEmptyCriteria(items, Len(items))
            /\ \A j \in 1..Len(evals) : EntryOfItem(evals[j][2], items[evals[j][1]])
    /\ pc \in {"item", "call"} =>
         /\ KeysInOrder(model_evaluations) =
              NonEmptyCriteria(case.rubric_items, rubric_idx - 1)
         /\ \A j \in 1..Len(model_evaluations) :
              EntryOfItem(model_evaluations[j][2],
                          case.rubric_items[model_evaluations[j][1]])
    /\ \A i, j \in 1..Len(results) :
         i < j => PositionOf(results[i]) < PositionOf(results[j])
    /\ \A k \in 1..Len(results) : PositionOf(results[k]) < idx

\* A run has graded a case whose first criterion is empty: its record has the
\* single key 2, met, with the penalty as weighted score; another case of the
\* run was graded as not met.
C22_Witness ==
    /\ pc = "done"
    /\ \E k \in 1..Len(results) :
         /\ outcome[k] = "graded"
         /\ KeysInOrder(results[k].evaluations) = <<2>>
         /\ results[k].evaluations[1][2].weighted_score = 0 - 5
    /\ \E k \in 1..Len(results) :
         /\ outcome[k] = "graded"
         /\ results[k].evaluations[1][2].score = 0

(***************************************************************************)
(* The lexical fallback of the judgment parser (SpecParser)                *)
(***************************************************************************)
\* The lowercased reply holds the field name "met" paired with the value v:
\* "met":v or "met": v.
MetPairedWith(t, v) ==
    \/ HasWord(t, <<"\"","m","e","t","\"",":">> \o v)
    \/ HasWord(t, <<"\"","m","e","t","\"",":"," ">> \o v)

\* C23: in the lexical fallback (structural parsing gives no usable met
\* value) a reply in which "met" is paired with false, and not with true,
\* gives 0, and one in which it is paired with true, and not with false,
\* gives 1, whatever other occurrences of true / false the text has.
C23_LexicalFallbackReadsMetValue ==
    (call_status = "returned" /\ ~StructuralRuleMatches(text)) =>
        /\ (/\ MetPairedWith(text, <<"f","a","l","s","e">>)
            /\ ~MetPairedWith(text, <<"t","r","u","e">>)) => JudgedScore = 0
        /\ (/\ MetPairedWith(text, <<"t","r","u","e">>)
            /\ ~MetPairedWith(text, <<"f","a","l","s","e">>)) => JudgedScore = 1

(***************************************************************************)
(* Totals and means of the aggregator (SpecMetric)                         *)
(***************************************************************************)
\* The rubric items calculate_model_scores passes on for a record.
ItemsLookedUp(rec) == RubricInfo(rubric_mapping, rec.case_id).rubric_items

\* The entries of a record whose criterion is that of some rubric item.
MatchingEntries(evaluations, rubric_items) ==
    SelectSeq(evaluations,
              LAMBDA e : /\ e[2].criterion # <<>>
                         /\ \E k \in 1..Len(rubric_items) :
                               rubric_items[k].criterion = e[2].criterion)

RECURSIVE TotalOf(_)
TotalOf(entries) ==
    IF entries = <<>> THEN 0
    ELSE entries[1][2].weighted_score + TotalOf(Tail(entries))

HasEntryFor(rec, criterion) ==
    \E e \in 1..Len(rec.evaluations) : rec.evaluations[e][2].criterion = criterion

\* C24: the total of a case is the sum of weighted_score over exactly the
\* entries whose criterion is the criterion of some item of the rubric looked
\* up for the case; an entry with an empty criterion or one no longer in the
\* rubric adds nothing, and an empty mapping or an empty rubric gives 0.  The
\* score stored for the case is that total over the maximum.
C24_TotalOverEntriesInRubric ==
    \A s \in Scored :
        LET items == ItemsLookedUp(s.rec) IN
        /\ s.info.score =
             per_example_score(TotalOf(MatchingEntries(s.rec.evaluations, items)),
                               MaxOf(items))
        /\ (s.rec.evaluations = <<>> \/ items = <<>>) => s.info.score = FracZero

\* A record with an entry for a criterion that left the rubric and an entry
\* without a criterion, for a case whose rubric has an item without a
\* criterion: only the 10 points of the remaining criterion count, of 13.
C24_Witness ==
    \E s \in Scored :
        /\ HasEntryFor(s.rec, CritOld)
        /\ HasEntryFor(s.rec, <<>>)
        /\ \E k \in 1..Len(ItemsLookedUp(s.rec)) :
              ItemsLookedUp(s.rec)[k].criterion = <<>>
        /\ TotalOf(s.rec.evaluations) = 19
        /\ s.info.score = Frac(10, 13)

\* The normalized scores of the evaluation records of a model, in file order
\* (records without a usable case_id have none).
RecordScores(name) ==
    LET kept == SelectSeq(DictGet(model_files, name),
                          LAMBDA rec : ~Falsy(rec.case_id))
    IN [j \in 1..Len(kept) |->
           DictGet(DictGet(all_model_scores, name), kept[j].case_id).score]

\* The mean of the scores of all records of a model, brought into [0,1].
ExpectedOverall(name) ==
    LET scores == RecordScores(name) IN
    IF scores = <<>> THEN FracZero
    ELSE IF FracLE(Mean(scores), FracZero) THEN FracZero
    ELSE IF FracLE(FracOne, Mean(scores)) THEN FracOne
    ELSE Mean(scores)

\* The monthly means of a model, one per month of the table.
MonthlyCellsOf(name) ==
    [m \in 1..Len(monthly_avg) |-> DictGet(monthly_avg[m][2], name)]

OverallLine == tsv.lines[Len(tsv.lines)]

\* C25: the Overall score of each model is the mean of the normalized scores
\* of all its evaluation records, those of unknown month included, clipped
\* to [0,1]; it is computed from the per-case scores, not from the monthly
\* means, and is what the row Overall of the table shows.
C25_OverallIsMeanOverAllCases ==
    Aggregated =>
        /\ Keys(overall_avgs) = Keys(model_files)
        /\ \A k \in 1..Len(model_files) :
              DictGet(overall_avgs, model_files[k][1]) =
                 ExpectedOverall(model_files[k][1])
        /\ tsv.written =>
              \A j \in 1..Len(tsv.header) :
                  OverallLine.cells[j] = Format4(ExpectedOverall(tsv.header[j]))

\* A model with cases in two months whose Overall score differs from the
\* mean of its two monthly means.
C25_Witness ==
    /\ tsv.written
    /\ Len(monthly_avg) = 2
    /\ \E k \in 1..Len(model_files) :
          LET name == model_files[k][1] IN
          /\ \A m \in 1..2 : MonthlyScores(DictGet(all_model_scores, name),
                                           monthly_avg[m][1]) # <<>>
          /\ DictGet(overall_avgs, name) # Mean(MonthlyCellsOf(name))
          /\ DictGet(overall_avgs, name) # FracZero

(***************************************************************************)
(* Termination of the grading run (SpecLive)                               *)
(***************************************************************************)
\* A step of the grading run: the steps of Next, the outcomes of a judge
\* request that need no reply text named first.
Step == JudgeRaisesRetry \/ JudgeRaisesLast \/ Next

\* The grading run under the scheduling of a sequential program: a step that
\* can be taken is taken, and a judge request returns or raises.
SpecLive == Init /\ [][Next]_vars /\ WF_vars(Step)

\* The run ended by an exception at start-up.
Raised == pc = "raised"

\* The run has finished: the loop is past the last case or was left on
\* max-cases, every case it looked at has its record (one per case with a
\* case_id, but for a case without rubric whose stored record is kept), no
\* judge call is pending, and the output file holds the resumed and the new
\* records.
Finished ==
    /\ pc = "done"
    /\ idx > Len(rubric_data) \/ MaxCasesReached
    /\ call_status # "calling"
    /\ \A i \in 1..(idx - 1) :
          rubric_data[i].case_id # NoneId =>
             \/ \E k \in 1..Len(results) : results[k].case_id = rubric_data[i].case_id
             \/ /\ rubric_data[i].rubric_items = <<>>
                /\ InDict(existing_evaluations, PyStr(rubric_data[i].case_id))
    /\ output_file = Persisted(results)

\* C26: for every rubric file and every behaviour of the judge the grading
\* run terminates: it ends by an exception at start-up, or it reaches its end
\* with no judge call pending, every case the loop looked at in a terminal
\* state (skipped or graded), and the final persist of the resumed and the
\* new records done; nothing happens after that.
C26_GradingRunTerminates == <>[](Raised \/ Finished)

\* A run has finished after grading every case of the rubric file, the last
\* judge call having exhausted its retries.
C26_Witness ==
    /\ pc = "done"
    /\ Len(results) = NumCases
    /\ \A k \in 1..NumCases : outcome[k] = "graded"
    /\ results[NumCases].evaluations[1][2].score = 0
    /\ output_file = Persisted(results)

(***************************************************************************)
(* The writes of the output file in a run of either controller (SpecRuns)  *)
(***************************************************************************)
\* A grading run or a generation run.
RunsInit == Init \/ GenInit

RunsNext == Next \/ GenNext

SpecRuns == RunsInit /\ [][RunsNext]_vars

\* The records of a are the first records of b, unchanged.
IsPrefix(a, b) == Len(a) <= Len(b) /\ SubSeq(b, 1, Len(a)) = a

\* A step that writes the output file keeps what the previous write of the
\* run put there and, under resume, every record of the prior file.
WriteKeepsRecords ==
    writes' # writes =>
        /\ writes > 0 => IsPrefix(output_file, output_file')
        /\ Resuming =>
              \A k \in 1..Len(prior_file) :
                  \E j \in 1..Len(output_file') : output_file'[j] = prior_file[k]

\* C27: within one run of either controller every write of the output file
\* contains every record of the previous write of that run and, under
\* resume, every record loaded from the prior output file, also for case_ids
\* absent from the current input and when the run stops early on max-cases:
\* a persisted record is never dropped or altered by a later write.
C27_WritesKeepRecords == [][WriteKeepsRecords]_vars

\* A resumed grading run has written the output file twice; the prior file
\* held a record of a case that is not in the rubric file, and the record is
\* in the output file.
C27_Witness ==
    /\ pc = "done"
    /\ writes = 2
    /\ Resuming
    /\ \E k \in 1..Len(prior_file) :
          /\ \A i \in 1..Len(rubric_data) : rubric_data[i].case_id # prior_file[k].case_id
          /\ \E j \in 1..Len(output_file) : output_file[j] = prior_file[k]

(***************************************************************************)
(* Error placeholders in a resumed generation run (SpecGen)                *)
(***************************************************************************)
\* The records of the prior output file that are error placeholders.
Placeholders ==
    {k \in 1..Len(prior_file) : prior_file[k].finish_reason = "error"}

\* C28: a case whose generation exhausted its retries and was persisted as
\* an error-tagged placeholder counts as processed: in a later generation
\* run with resume the generation function is never called for its case_id,
\* and the placeholder stays in the results and in the output file.
C28_ErrorPlaceholderCountsAsProcessed ==
    Resuming =>
        \A k \in Placeholders :
            /\ prior_file[k].case_id \notin gen_called
            /\ \E j \in 1..Len(output_file) : output_file[j] = prior_file[k]
            /\ pc \notin {"gen_main", "gen_client", "gen_start", "raised"} =>
                  /\ prior_file[k].case_id \in processed_case_ids
                  /\ \E j \in 1..Len(results) : results[j] = prior_file[k]

\* A resumed run over a prior file with an error placeholder has finished:
\* it called the generation function for other cases and wrote the file.
C28_Witness ==
    /\ Resuming
    /\ Placeholders # {}
    /\ pc = "gen_done"
    /\ gen_called # {}
    /\ writes >= 2
    /\ Len(output_file) > Len(prior_file)

\* The record of a case with every criterion of its rubric scored 0.
GradedAsZero(rec) ==
    [case_id |-> rec.case_id,
     evaluations |->
        LET items == ItemsLookedUp(rec) IN
        GradedEvaluations(items, "unmet", Len(items))]

\* The month the aggregator puts a record in.
MonthOfRecord(rec) ==
    LET post_time == RubricInfo(rubric_mapping, rec.case_id).post_time IN
    IF post_time # EmptyTime THEN extract_year_month(post_time) ELSE Unknown

\* The records of a model's file that have a usable case_id.
RecordsOf(name) ==
    SelectSeq(DictGet(model_files, name), LAMBDA rec : ~Falsy(rec.case_id))

RecordsIn(name, month) ==
    SelectSeq(RecordsOf(name), LAMBDA rec : MonthOfRecord(rec) = month)

\* The scores of records, one per record, 0 for a record with an empty
\* mapping.
ScoresCountingEmptyAsZero(name, records) ==
    [j \in 1..Len(records) |->
        IF records[j].evaluations = <<>> THEN FracZero
        ELSE DictGet(DictGet(all_model_scores, name), records[j].case_id).score]

\* C29: a record with an empty mapping (a skipped case) gets the score entry
\* of a record of the same case whose criteria all scored 0: normalized
\* score 0, same month; it is counted in the case count of its month and it
\* enters the monthly and the overall mean of its model as a 0.
C29_EmptyRecordCountsAsZero ==
    /\ \A k \in 1..Len(all_model_scores) :
          LET name == all_model_scores[k][1]
              case_scores == all_model_scores[k][2]
              records == RecordsOf(name) IN
          \A j \in 1..Len(records) :
              records[j].evaluations = <<>> =>
                 /\ InDict(case_scores, records[j].case_id)
                 /\ DictGet(case_scores, records[j].case_id).score = FracZero
                 /\ DictGet(case_scores, records[j].case_id) =
                       DictGet(calculate_model_scores(<<GradedAsZero(records[j])>>,
                                                      rubric_mapping, 1),
                               records[j].case_id)
    /\ Aggregated =>
          /\ \A c \in 1..Len(monthly_case_counts) :
                monthly_case_counts[c][2] =
                   Len(RecordsIn(all_model_scores[1][1], monthly_case_counts[c][1]))
          /\ \A m \in 1..Len(monthly_avg) : \A k \in 1..Len(monthly_avg[m][2]) :
                LET name == monthly_avg[m][2][k][1] IN
                monthly_avg[m][2][k][2] =
                   ClippedMean(ScoresCountingEmptyAsZero(
                                  name, RecordsIn(name, monthly_avg[m][1])))
          /\ \A k \in 1..Len(overall_avgs) :
                LET name == overall_avgs[k][1] IN
                overall_avgs[k][2] =
                   ClippedMean(ScoresCountingEmptyAsZero(name, RecordsOf(name)))

\* The first model has, in one month, a record with an empty mapping and a
\* record scoring 1: the month counts 2 cases and the model's mean is 1/2.
C29_Witness ==
    /\ tsv.written
    /\ \E m \in 1..Len(monthly_avg) :
          LET name == all_model_scores[1][1]
              records == RecordsIn(name, monthly_avg[m][1]) IN
          /\ Len(records) = 2
          /\ \E j \in 1..2 : records[j].evaluations = <<>>
          /\ DictGet(monthly_case_counts, monthly_avg[m][1]) = 2
          /\ DictGet(monthly_avg[m][2], name) = Frac(1, 2)

====
